---- MODULE Spec2Model ----
(***************************************************************************)
(* Verification model of the ifql query engine.                            *)
(*                                                                         *)
(*   Part I   execute.storageSource (Run / Next) and the calls it makes on *)
(*            its downstream transformations.                              *)
(*   Part II  plan.planner (Plan / pushDownAndSearch / removeProcedure /   *)
(*            removeID) with the range and where push-down rules.          *)
(*   Part III the functions of the operations (range arguments, merge      *)
(*            join).                                                       *)
(*   Part IV  the selector transformations.                                *)
(*   Part V   the parser of the query language: the grammar and the        *)
(*            engine that interprets it.                                   *)
(*   Part VI  the stddev aggregate.                                        *)
(***************************************************************************)
EXTENDS Integers, Sequences, FiniteSets, TLC

VARIABLES
    \* ---- storageSource fields and the configuration it was built with
    nts,          \* len(s.ts): the transformations are 1..nts
    boundsStop,   \* s.bounds.Stop
    period,       \* s.window.Period
    every,        \* s.window.Every
    c0,           \* the currentTime handed to NewStorageSource
    currentTime,  \* s.currentTime
    \* ---- position of Run and its locals
    pc,           \* "next" | "process" | "ptime" | "watermark" | "finish" | "done"
    ti,           \* index into s.ts of the loop that is running
    blk,          \* index of the block being delivered by blocks.Do
    nblk,         \* number of blocks of the iterator being drained
    mark,         \* the mark returned by the last successful Next
    \* ---- what the last call of Next did
    calls,        \* number of Next calls made so far (saturates at MaxCalls)
    win,          \* parity of the number of Next calls: tells a window from the next
    lastNext,     \* record describing the last Next call
    readFailed,   \* reader.Read has returned an error
    logged,       \* number of lines written by log.Println (saturates at 1)
    \* ---- the environment
    cancelled,    \* the cancellation signal of the query has been raised
    obs,          \* obs[t]: the calls transformation t has received
    \* ---- the planner and the logical plan handed to Plan
    nprocs,       \* number of procedures of the logical plan; their IDs are 1..nprocs
    procs,        \* the Procedure objects, shared by the logical and the physical plan
    logical,      \* the procedures as they were when Plan was called
    planProcs,    \* keys of p.plan.Procedures
    planOrder,    \* p.plan.Order
    results,      \* p.plan.Results
    planBounds,   \* p.plan.Bounds
    planErr,      \* the error Plan returns: "unset" until it returns, then "nil"
    fn,           \* the function under call, "none" when there is none
    fnArgs,       \* its arguments
    fnRet,        \* what it returned
    fpc,          \* "call" before the call, "returned" after it
    selKind,      \* the selector transformation: "row" (min), "index" (first)
    selConfig,    \* its SelectorConfig
    selCache,     \* the blocks of its BlockBuilderCache, in order of creation
    selBlock,     \* the block of the last Process call
    selCount,     \* the number of Process calls so far
    ppc,          \* "idle" | "visit" | "results" | "done" | "panic"
    vi,           \* index into ap.Order of the procedure the second ap.Do visits
    visited,      \* what pushDownAndSearch did for each procedure visited
    \* ---- a StddevAgg under the aggregate transformation
    agg,          \* its fields n, mean and m2
    fresh,        \* a new(StddevAgg) given the Do calls made since the last Reset
    ndo,          \* number of Do calls so far
    nreset,       \* number of Reset calls so far
    dropped       \* number of values given to Do before the last Reset

srcVars == <<nts, boundsStop, period, every, c0, currentTime, pc, ti, blk, nblk,
             mark, calls, win, lastNext, readFailed, logged, cancelled, obs>>

planVars == <<nprocs, procs, logical, planProcs, planOrder, results, planBounds,
              planErr, ppc, vi, visited>>

fnVars == <<fn, fnArgs, fnRet, fpc>>

selVars == <<selKind, selConfig, selCache, selBlock, selCount>>

aggVars == <<agg, fresh, ndo, nreset, dropped>>

vars == <<srcVars, planVars, fnVars, selVars, aggVars>>

\* the variables outside each part
notSrc == <<planVars, fnVars, selVars, aggVars>>
notPlan == <<srcVars, fnVars, selVars, aggVars>>
notFn == <<srcVars, planVars, selVars, aggVars>>
notSel == <<srcVars, planVars, fnVars, aggVars>>
notAgg == <<srcVars, planVars, fnVars, selVars>>

\* ------------------------------------------------------------------ bounds
MaxProcs == 4
MaxTs == 2
MaxTime == 2
MaxPeriod == 1
MaxEvery == 2
NegEvery == 1
MaxBlocks == 2
MaxCalls == 6
TimeFloor == 2

\* ------------------------------------------------------------------ Part I

\* window start of a Next call
WindowStart(ct, per) == ct - per

\* window stop of a Next call
WindowStop(ct) == ct

\* s.currentTime after a Next call
Advance(ct, ev) == ct + ev

Exhausted_Inclusive(stop, bstop) == stop >= bstop

\* the test that ends the windows
Exhausted(stop, bstop) == stop > bstop

\* what Next returns when the windows are exhausted: (nil, 0, false)
ExhaustedReturn == [ok |-> FALSE, mark |-> 0, n |-> 0]

ReadReturn_IgnoreError(stop, err, n) ==
    IF err THEN [ok |-> TRUE, mark |-> stop, n |-> 0]
           ELSE [ok |-> TRUE, mark |-> stop, n |-> n]

\* what Next returns after reader.Read: (nil, 0, false) on an error,
\* (bi, stop, true) otherwise; n is the number of blocks bi will yield
ReadReturn(stop, err, n) ==
    IF err THEN [ok |-> FALSE, mark |-> 0, n |-> 0]
           ELSE [ok |-> TRUE, mark |-> stop, n |-> n]

\* a transformation that has received no call: last is the last call, flip
\* changes with every call, mark and prevMark are the last two watermarks
\* (nMarks of them received, counted up to 2), blkStop and blkWin the window
\* of the last block, markWin the window of the last watermark
NoCalls == [last |-> "none", flip |-> 0, hasMark |-> FALSE, mark |-> 0,
            prevMark |-> 0, nMarks |-> 0, markWin |-> 0, processed |-> FALSE,
            blkStop |-> 0, blkWin |-> 0, finishes |-> 0, procFailed |-> FALSE]

Flip(b) == 1 - b

Sat(n, max) == IF n < max THEN n + 1 ELSE max

\* t.Process(s.id, b); the block b belongs to the window whose stop is mark
RecvProcess(o, bstop, w, failed) ==
    [o EXCEPT !.last = "Process", !.flip = Flip(@), !.processed = TRUE,
              !.blkStop = bstop, !.blkWin = w, !.procFailed = @ \/ failed]

\* t.UpdateProcessingTime(s.id, Now())
RecvProcessingTime(o) ==
    [o EXCEPT !.last = "UpdateProcessingTime", !.flip = Flip(@)]

\* t.UpdateWatermark(s.id, mark)
RecvWatermark(o, m, w) ==
    [o EXCEPT !.last = "UpdateWatermark", !.flip = Flip(@), !.hasMark = TRUE,
              !.prevMark = o.mark, !.mark = m, !.markWin = w,
              !.nMarks = Sat(@, 2)]

\* t.Finish(s.id)
RecvFinish(o) ==
    [o EXCEPT !.last = "Finish", !.flip = Flip(@), !.finishes = Sat(@, 2)]

SrcConfig(everies) ==
    /\ nts \in 0..MaxTs
    /\ boundsStop \in 0..MaxTime
    /\ period \in 0..MaxPeriod
    /\ every \in everies
    /\ c0 \in 0..MaxTime
    /\ currentTime = c0
    /\ pc = "next"
    /\ ti = 1
    /\ blk = 1
    /\ nblk = 0
    /\ mark = 0
    /\ calls = 0
    /\ win = 0
    /\ lastNext = [start |-> 0, stop |-> 0, read |-> FALSE, ret |-> ExhaustedReturn]
    /\ readFailed = FALSE
    /\ logged = 0
    /\ cancelled = FALSE
    /\ obs = [t \in 1..MaxTs |-> NoCalls]

\* NewStorageSource followed by addTransformation for each child
SrcInit == SrcConfig((0 - NegEvery)..MaxEvery)

\* where Run goes after Next returned ret
AfterNext(ret) ==
    IF ret.ok
    THEN IF ret.n > 0 /\ nts > 0 THEN "process"
         ELSE IF nts > 0 THEN "watermark" ELSE "next"
    ELSE IF nts > 0 THEN "finish" ELSE "done"

\* one call of s.Next() by the loop header of Run
SrcNext ==
    /\ pc = "next"
    /\ currentTime >= 0 - TimeFloor
    /\ LET start == WindowStart(currentTime, period)
           stop  == WindowStop(currentTime)
       IN /\ currentTime' = Advance(currentTime, every)
          /\ calls' = Sat(calls, MaxCalls)
          /\ win' = Flip(win)
          /\ IF Exhausted(stop, boundsStop)
             THEN /\ lastNext' = [start |-> start, stop |-> stop, read |-> FALSE,
                                  ret |-> ExhaustedReturn]
                  /\ UNCHANGED <<readFailed, logged>>
             ELSE \E err \in BOOLEAN, n \in 0..MaxBlocks :
                     /\ lastNext' = [start |-> start, stop |-> stop, read |-> TRUE,
                                     ret |-> ReadReturn(stop, err, n)]
                     /\ readFailed' = (readFailed \/ err)
                     /\ logged' = IF err THEN 1 ELSE logged
          /\ pc' = AfterNext(lastNext'.ret)
          /\ mark' = lastNext'.ret.mark
          /\ nblk' = lastNext'.ret.n
          /\ ti' = 1
          /\ blk' = 1
    /\ UNCHANGED <<nts, boundsStop, period, every, c0, cancelled, obs>>

SrcProcess_NoProcessingTime ==
    /\ pc = "process"
    /\ \E failed \in BOOLEAN :
          obs' = [obs EXCEPT ![ti] = RecvProcess(@, mark, win, failed)]
    /\ IF ti < nts THEN /\ ti' = ti + 1
                        /\ UNCHANGED <<pc, blk>>
       ELSE IF blk < nblk THEN /\ ti' = 1
                               /\ blk' = blk + 1
                               /\ UNCHANGED pc
       ELSE /\ ti' = 1
            /\ pc' = "watermark"
            /\ UNCHANGED blk
    /\ UNCHANGED <<nts, boundsStop, period, every, c0, currentTime, nblk, mark,
                   calls, win, lastNext, readFailed, logged, cancelled>>

\* a Run that goes to the Finish calls when Process returns an error
SrcProcess_StopOnError ==
    /\ pc = "process"
    /\ \E failed \in BOOLEAN :
          /\ obs' = [obs EXCEPT ![ti] = RecvProcess(@, mark, win, failed)]
          /\ pc' = IF failed THEN "finish" ELSE "ptime"
          /\ ti' = IF failed THEN 1 ELSE ti
    /\ UNCHANGED <<nts, boundsStop, period, every, c0, currentTime, blk, nblk,
                   mark, calls, win, lastNext, readFailed, logged, cancelled>>

\* t.Process(s.id, b) inside blocks.Do; its result is not looked at
SrcProcess ==
    /\ pc = "process"
    /\ \E failed \in BOOLEAN :
          obs' = [obs EXCEPT ![ti] = RecvProcess(@, mark, win, failed)]
    /\ pc' = "ptime"
    /\ UNCHANGED <<nts, boundsStop, period, every, c0, currentTime, ti, blk, nblk,
                   mark, calls, win, lastNext, readFailed, logged, cancelled>>

\* t.UpdateProcessingTime(s.id, Now()), then the next t, the next block, or
\* the end of blocks.Do
SrcProcessingTime ==
    /\ pc = "ptime"
    /\ obs' = [obs EXCEPT ![ti] = RecvProcessingTime(@)]
    /\ IF ti < nts THEN /\ ti' = ti + 1
                        /\ pc' = "process"
                        /\ UNCHANGED blk
       ELSE IF blk < nblk THEN /\ ti' = 1
                               /\ blk' = blk + 1
                               /\ pc' = "process"
       ELSE /\ ti' = 1
            /\ pc' = "watermark"
            /\ UNCHANGED blk
    /\ UNCHANGED <<nts, boundsStop, period, every, c0, currentTime, nblk, mark,
                   calls, win, lastNext, readFailed, logged, cancelled>>

\* t.UpdateWatermark(s.id, mark) for each t, then back to the loop header
SrcWatermark ==
    /\ pc = "watermark"
    /\ obs' = [obs EXCEPT ![ti] = RecvWatermark(@, mark, win)]
    /\ IF ti < nts THEN /\ ti' = ti + 1
                        /\ UNCHANGED pc
       ELSE /\ ti' = 1
            /\ pc' = "next"
    /\ UNCHANGED <<nts, boundsStop, period, every, c0, currentTime, blk, nblk, mark,
                   calls, win, lastNext, readFailed, logged, cancelled>>

\* t.Finish(s.id) for each t, then Run returns
SrcFinish ==
    /\ pc = "finish"
    /\ obs' = [obs EXCEPT ![ti] = RecvFinish(@)]
    /\ IF ti < nts THEN /\ ti' = ti + 1
                        /\ UNCHANGED pc
       ELSE /\ ti' = 1
            /\ pc' = "done"
    /\ UNCHANGED <<nts, boundsStop, period, every, c0, currentTime, blk, nblk, mark,
                   calls, win, lastNext, readFailed, logged, cancelled>>

\* the query's cancellation signal is raised while the source runs
Cancel ==
    /\ ~cancelled
    /\ pc # "done"
    /\ cancelled' = TRUE
    /\ UNCHANGED <<nts, boundsStop, period, every, c0, currentTime, pc, ti, blk,
                   nblk, mark, calls, win, lastNext, readFailed, logged, obs>>

\* the steps of storageSource.Run
SrcRun ==
    \/ SrcNext
    \/ SrcProcess
    \/ SrcProcessingTime
    \/ SrcWatermark
    \/ SrcFinish

\* ------------------------------------------------- claims: storage source

Ts == 1..nts

\* transformation t receives a call in this step
Called(t) == obs'[t].flip # obs[t].flip

\* the pairs <<call, next call>> of ((Process UpdateProcessingTime)* UpdateWatermark)* Finish
CallShape ==
    {<<"none", "Process">>, <<"none", "UpdateWatermark">>, <<"none", "Finish">>,
     <<"Process", "UpdateProcessingTime">>,
     <<"UpdateProcessingTime", "Process">>,
     <<"UpdateProcessingTime", "UpdateWatermark">>,
     <<"UpdateWatermark", "Process">>, <<"UpdateWatermark", "UpdateWatermark">>,
     <<"UpdateWatermark", "Finish">>}

C1_CallStep ==
    \A t \in 1..MaxTs :
       /\ Called(t) => t \in Ts /\ <<obs[t].last, obs'[t].last>> \in CallShape
       /\ (obs[t].last = "Process" /\ \E u \in 1..MaxTs : Called(u))
             => /\ Called(t)
                /\ obs'[t].last = "UpdateProcessingTime"
                /\ \A u \in 1..MaxTs \ {t} : ~Called(u)
       /\ (Called(t) /\ obs'[t].last = "UpdateWatermark")
             => /\ obs[t].last = "UpdateProcessingTime"
                   => obs[t].blkWin = obs'[t].markWin /\ obs[t].blkStop = obs'[t].mark
                /\ obs[t].last = "UpdateWatermark" => obs[t].markWin # obs'[t].markWin
       /\ (Called(t) /\ obs'[t].last = "Process" /\ obs[t].hasMark)
             => obs'[t].blkWin # obs[t].markWin

\* C1: the calls each downstream transformation t receives from Run have the
\* shape ((Process UpdateProcessingTime)* UpdateWatermark)* Finish: a Process
\* is followed at once by UpdateProcessingTime on the same t, the Process
\* calls of a window come before that window's UpdateWatermark and none after
\* it, Finish is called exactly once per t and nothing follows it
C1_CallSequence ==
    /\ [](pc = "done" => \A t \in Ts : obs[t].finishes = 1 /\ obs[t].last = "Finish")
    /\ [](\A t \in 1..MaxTs : obs[t].finishes <= 1)
    /\ [][C1_CallStep]_vars

\* a run of two windows with blocks, delivered to two transformations, has ended
C1_Witness ==
    /\ pc = "done"
    /\ nts = 2
    /\ \A t \in Ts : obs[t].nMarks = 2 /\ obs[t].processed /\ obs[t].finishes = 1

\* C2: for every window configuration the watermarks a transformation
\* receives never decrease, and each is the stop of the window just delivered
C2_WatermarkMonotonic ==
    \A t \in Ts :
       /\ obs[t].nMarks = 2 => obs[t].prevMark <= obs[t].mark
       /\ (obs[t].last = "UpdateWatermark" /\ obs[t].processed
              /\ obs[t].blkWin = obs[t].markWin) => obs[t].mark = obs[t].blkStop

\* C3: for every configuration Run terminates, having called Finish on every
\* downstream transformation
C3_RunTerminates == <>(pc = "done" /\ \A t \in Ts : obs[t].finishes = 1)

\* C4: the k-th call of Next (k = 0, 1, ..) takes the window
\* [c0 + k*every - period, c0 + k*every) and advances currentTime by every; it
\* reads unless the stop is greater than bounds.Stop, the first such k ends
\* the windows without a read, and so every window read has stop <= bounds.Stop
C4_Windowing ==
    calls < MaxCalls =>
       /\ currentTime = c0 + calls * every
       /\ calls > 0 =>
             LET k == calls - 1
             IN /\ lastNext.stop = c0 + k * every
                /\ lastNext.start = c0 + k * every - period
                /\ lastNext.read <=> lastNext.stop <= boundsStop
                /\ ~lastNext.read => /\ lastNext.ret = ExhaustedReturn
                                     /\ pc \in {"finish", "done"}
                /\ \A j \in 0..(k - 1) : c0 + j * every <= boundsStop

\* the third call of Next has found the windows exhausted, after two reads
C4_Witness ==
    /\ calls = 3
    /\ ~lastNext.read
    /\ every > 0
    /\ period > 0
    /\ c0 > 0

C5_Step ==
    readFailed =>
       /\ win' = win
       /\ lastNext' = lastNext
       /\ \A t \in 1..MaxTs : Called(t) => obs'[t].last = "Finish"

\* C5: once reader.Read has returned an error the source makes no further
\* Read, Process or UpdateWatermark call, and it calls Finish on every
\* downstream transformation
C5_ReadErrorStops ==
    /\ [](readFailed => pc \in {"finish", "done"})
    /\ [](readFailed /\ pc = "finish" => ENABLED SrcFinish)
    /\ [](readFailed /\ pc = "done" => \A t \in Ts : obs[t].finishes = 1)
    /\ [][C5_Step]_vars

\* Read failed after an earlier window had been delivered, and Run has ended
C5_Witness ==
    /\ readFailed
    /\ pc = "done"
    /\ nts = 2
    /\ \A t \in Ts : obs[t].hasMark /\ obs[t].processed /\ obs[t].finishes = 1

\* C6: a failed Read is surfaced: what Next hands to Run after the failure,
\* and hence what Run and the transformations can see, differs from what it
\* hands over when the windows are exhausted
C6_ReadErrorSurfaced ==
    (readFailed /\ lastNext.read /\ ~lastNext.ret.ok) => lastNext.ret # ExhaustedReturn

\* C7: the source checks the cancellation signal before each window: once it
\* is raised, the next call of Next reads nothing and Run goes on to Finish
C7_CancelStopsSource ==
    [][(cancelled /\ win' # win) => (~lastNext'.read /\ pc' \in {"finish", "done"})]_vars

\* the calls received, whatever Process returned
Delivered(o) == [t \in 1..MaxTs |-> [o[t] EXCEPT !.procFailed = FALSE]]

\* the call that Run makes at the position (pc, ti, blk) and the position it
\* goes to, given the calls delivered so far, when no result of Process is
\* looked at
NextDelivery(o) ==
    CASE pc = "process" ->
            [obs |-> [o EXCEPT ![ti] = RecvProcess(@, mark, win, FALSE)],
             pc |-> "ptime", ti |-> ti, blk |-> blk]
      [] pc = "ptime" ->
            [obs |-> [o EXCEPT ![ti] = RecvProcessingTime(@)],
             pc |-> IF ti < nts \/ blk < nblk THEN "process" ELSE "watermark",
             ti |-> IF ti < nts THEN ti + 1 ELSE 1,
             blk |-> IF ti >= nts /\ blk < nblk THEN blk + 1 ELSE blk]
      [] pc = "watermark" ->
            [obs |-> [o EXCEPT ![ti] = RecvWatermark(@, mark, win)],
             pc |-> IF ti < nts THEN "watermark" ELSE "next",
             ti |-> IF ti < nts THEN ti + 1 ELSE 1, blk |-> blk]
      [] pc = "finish" ->
            [obs |-> [o EXCEPT ![ti] = RecvFinish(@)],
             pc |-> IF ti < nts THEN "finish" ELSE "done",
             ti |-> IF ti < nts THEN ti + 1 ELSE 1, blk |-> blk]

\* C28: every step of Run makes the call, with the block and mark, and goes
\* to the position that follow from the position it is at and the calls
\* delivered so far, whatever any Process call has returned; Next looks at no
\* transformation
C28_DeliveryIgnoresErrors ==
    [][/\ (pc \in {"process", "ptime", "watermark", "finish"} /\ obs' # obs) =>
             LET step == NextDelivery(Delivered(obs))
             IN /\ Delivered(obs') = step.obs
                /\ pc' = step.pc /\ ti' = step.ti /\ blk' = step.blk
       /\ (pc = "next" /\ calls' # calls) =>
             /\ obs' = obs
             /\ pc' = AfterNext(lastNext'.ret)]_vars

\* Run has returned; Process failed on the first of two transformations,
\* and both have since received blocks, two watermarks and Finish
C28_Witness ==
    /\ pc = "done"
    /\ nts = 2
    /\ obs[1].procFailed /\ ~obs[2].procFailed
    /\ \A t \in Ts : obs[t].processed /\ obs[t].nMarks = 2 /\ obs[t].finishes = 1

\* ------------------------------------------------------------------ Part II

SelectKind == "select"
RangeKind == "range"
WhereKind == "where"
LimitKind == "limit"
CountKind == "count"
JoinKind == "join"

\* kinds whose ProcedureSpec implements PushDownProcedureSpec
PushDownKinds == {RangeKind, WhereKind, LimitKind}

\* RangeProcedureSpec.PushDownRule
RangePushDownRule == [Root |-> SelectKind, Through |-> {LimitKind, WhereKind}]

RangePushDown_KeepFirst(spec, root) ==
    IF root.boundsSet THEN root
    ELSE [root EXCEPT !.boundsSet = TRUE, !.bounds = spec.bounds]

\* RangeProcedureSpec.PushDown: the select takes the bounds of the range
RangePushDown(spec, root) == [root EXCEPT !.boundsSet = TRUE, !.bounds = spec.bounds]

\* WhereProcedureSpec.PushDownRule
WherePushDownRule == [Root |-> SelectKind, Through |-> {LimitKind, RangeKind}]

\* a PushDown that makes the spec of the select anew around the predicate
WherePushDown_NewSpec(spec, root) ==
    [root EXCEPT !.whereSet = TRUE, !.where = spec.where,
                 !.boundsSet = FALSE, !.bounds = [start |-> 0, stop |-> 0]]

\* WhereProcedureSpec.PushDown: the select takes the predicate of the where
WherePushDown(spec, root) == [root EXCEPT !.whereSet = TRUE, !.where = spec.where]

\* the rule of limit: pushed into a select, through range and where
LimitPushDownRule == [Root |-> SelectKind, Through |-> {RangeKind, WhereKind}]

\* the PushDown of limit: the select takes the limit
LimitPushDown(spec, root) == [root EXCEPT !.limitSet = TRUE, !.limit = spec.limit]

\* pd.PushDownRule() of the procedure's spec
PushDownRule(kind) ==
    IF kind = RangeKind THEN RangePushDownRule
    ELSE IF kind = WhereKind THEN WherePushDownRule
    ELSE LimitPushDownRule

\* pd.PushDown of the procedure's spec, applied to root
PushDown(spec, root) ==
    IF spec.kind = RangeKind THEN RangePushDown(spec, root)
    ELSE IF spec.kind = WhereKind THEN WherePushDown(spec, root)
    ELSE LimitPushDown(spec, root)

hasKind(kind, kinds) == kind \in kinds

\* the zero value of BoundsSpec: the empty interval [0, 0)
ZeroBounds == [start |-> 0, stop |-> 0]

\* the bounds of the range with the given ID: [id, id + 1)
RangeBounds(id) == [start |-> id, stop |-> id + 1]

\* kinds whose ProcedureSpec implements BoundedProcedureSpec: the select,
\* whose Bounds a range sets; RangeProcedureSpec has no TimeBounds method
BoundedKinds == {SelectKind}

\* TimeBounds() of a bounded spec
TimeBounds(spec) == spec.bounds

\* BoundsSpec.Union: the least interval that holds both, the zero value
\* counting as no bounds
Union(b, o) ==
    IF o = ZeroBounds THEN b
    ELSE IF b = ZeroBounds THEN o
    ELSE [start |-> IF o.start < b.start THEN o.start ELSE b.start,
          stop |-> IF o.stop > b.stop THEN o.stop ELSE b.stop]

\* a Procedure of the given kind; a range, where or limit carries its own
\* argument (bounds, predicate, n), fixed here by the procedure's ID
NewProcedure(id, kind, parents) ==
    [kind |-> kind, parents |-> parents, children |-> <<>>,
     boundsSet |-> FALSE,
     bounds |-> IF kind = RangeKind THEN RangeBounds(id) ELSE ZeroBounds,
     whereSet |-> FALSE, where |-> IF kind = WhereKind THEN id ELSE 0,
     limitSet |-> FALSE, limit |-> IF kind = LimitKind THEN id ELSE 0]

NoProcedure == NewProcedure(0, "none", <<>>)

\* the [kind, parents] a procedure with the given ID may have in a logical
\* plan whose Order is 1, 2, ..: a select reads storage and has no parent, a
\* join has two distinct parents in the order of its tables, every other
\* kind is chained on one parent
NodeChoices(id) ==
    {<<SelectKind, << >> >>}
    \cup {<<k, <<p>> >> : k \in {RangeKind, WhereKind, LimitKind, CountKind},
                         p \in 1..(id - 1)}
    \cup {<<JoinKind, <<pq[1], pq[2]>> >> :
             pq \in {x \in (1..(id - 1)) \X (1..(id - 1)) : x[1] # x[2]}}

RECURSIVE LogicalShapes(_)
LogicalShapes(n) ==
    IF n = 0 THEN {<<>>}
    ELSE {Append(s, c) : s \in LogicalShapes(n - 1), c \in NodeChoices(n)}

RECURSIVE ChildrenFrom(_, _, _)
\* IDs of the procedures from c on that list p among their parents
ChildrenFrom(shape, p, c) ==
    IF c > Len(shape) THEN <<>>
    ELSE IF \E i \in 1..Len(shape[c][2]) : shape[c][2][i] = p
         THEN <<c>> \o ChildrenFrom(shape, p, c + 1)
         ELSE ChildrenFrom(shape, p, c + 1)

\* the procedures of the logical plan of a shape, parents and children symmetric
LogicalProcedures(shape) ==
    [id \in 1..MaxProcs |->
        IF id <= Len(shape)
        THEN [NewProcedure(id, shape[id][1], shape[id][2])
                 EXCEPT !.children = ChildrenFrom(shape, id, 1)]
        ELSE NoProcedure]

NotVisited == [roots |-> <<>>, through |-> <<>>, blocked |-> FALSE, seen |-> FALSE]

\* NewPlanner(), and the logical plan that Plan will be called with
PlanInit ==
    /\ nprocs \in 1..MaxProcs
    /\ \E shape \in LogicalShapes(nprocs) : procs = LogicalProcedures(shape)
    /\ logical = procs
    /\ planProcs = {}
    /\ planOrder = <<>>
    /\ results = <<>>
    /\ planBounds = ZeroBounds
    /\ planErr = "unset"
    /\ ppc = "idle"
    /\ vi = 1
    /\ visited = [id \in 1..MaxProcs |-> NotVisited]

RECURSIVE IndexOf(_, _, _)
\* the first index from i on at which ids holds id, 0 if there is none
IndexOf(ids, id, i) ==
    IF i > Len(ids) THEN 0
    ELSE IF ids[i] = id THEN i
    ELSE IndexOf(ids, id, i + 1)

\* removeID: ids without the first occurrence of remove; the filtered slice
\* is only filled when remove is found
removeID(ids, remove) ==
    LET i == IndexOf(ids, remove, 1)
    IN IF i = 0 THEN <<>>
       ELSE SubSeq(ids, 1, i - 1) \o SubSeq(ids, i + 1, Len(ids))

\* a search that pushes into the first parent whatever its kind
pushDownAndSearch_AnyKind(st, present, owner, pr, i) ==
    IF Len(st.ps[pr].parents) = 0 THEN st
    ELSE LET parent == st.ps[pr].parents[1]
         IN [st EXCEPT !.ps[parent] = PushDown(st.ps[owner], @),
                       !.roots = Append(@, parent)]

RECURSIVE pushDownAndSearch(_, _, _, _, _)
\* the loop over pr.Parents from index i on; st carries the procedures, the
\* panic flag (a parent that is no key of p.plan.Procedures is a nil pointer)
\* and a record of the roots pushed into, of the procedures searched through
\* and of the cannot-push-down branch
pushDownAndSearch(st, present, owner, pr, i) ==
    IF st.panic \/ i > Len(st.ps[pr].parents) THEN st
    ELSE LET parent == st.ps[pr].parents[i]
             rule == PushDownRule(st.ps[owner].kind)
         IN IF parent \notin present THEN [st EXCEPT !.panic = TRUE]
            ELSE LET pk == st.ps[parent].kind
                     st1 ==
                        IF pk = rule.Root
                        THEN [st EXCEPT !.ps[parent] = PushDown(st.ps[owner], @),
                                        !.roots = Append(@, parent)]
                        ELSE IF hasKind(pk, rule.Through)
                        THEN pushDownAndSearch(
                                 [st EXCEPT !.through = Append(@, parent)],
                                 present, owner, parent, 1)
                        ELSE [st EXCEPT !.blocked = TRUE]
                 IN pushDownAndSearch(st1, present, owner, pr, i + 1)

RECURSIVE SpliceParents(_, _, _, _)
\* first loop of removeProcedure, over pr.Parents from index i on
SpliceParents(st, present, pr, i) ==
    IF st.panic \/ i > Len(st.ps[pr].parents) THEN st
    ELSE LET id == st.ps[pr].parents[i]
         IN IF id \notin present THEN [st EXCEPT !.panic = TRUE]
            ELSE SpliceParents(
                    [st EXCEPT !.ps[id].children =
                                  removeID(@, pr) \o st.ps[pr].children],
                    present, pr, i + 1)

\* a removal that leaves the Parents of the children as they are
SpliceChildren_Skipped(st, present, pr, i) == st

RECURSIVE SpliceChildren(_, _, _, _)
\* second loop of removeProcedure, over pr.Children from index i on
SpliceChildren(st, present, pr, i) ==
    IF st.panic \/ i > Len(st.ps[pr].children) THEN st
    ELSE LET id == st.ps[pr].children[i]
         IN IF id \notin present THEN [st EXCEPT !.panic = TRUE]
            ELSE SpliceChildren(
                    [st EXCEPT !.ps[id].parents =
                                  removeID(@, pr) \o st.ps[pr].parents],
                    present, pr, i + 1)

\* removeProcedure: st.present and st.order are p.plan.Procedures and Order
removeProcedure(st, pr) ==
    LET present == st.present \ {pr}
        st1 == [st EXCEPT !.present = present, !.order = removeID(@, pr)]
    IN SpliceChildren(SpliceParents(st1, present, pr, 1), present, pr, 1)

PushDownAndRemove_Always(st, pr) ==
    LET st1 == IF st.ps[pr].kind \in PushDownKinds
               THEN pushDownAndSearch(st, st.present, pr, pr, 1)
               ELSE st
    IN IF st1.panic THEN st1 ELSE removeProcedure(st1, pr)

\* first if of the body of the second ap.Do: a PushDown procedure is pushed
\* down and removed
PushDownAndRemove(st, pr) ==
    IF st.ps[pr].kind \in PushDownKinds
    THEN LET st1 == pushDownAndSearch(st, st.present, pr, pr, 1)
         IN IF st1.panic THEN st1 ELSE removeProcedure(st1, pr)
    ELSE st

\* second if of the body of the second ap.Do: the bounds of a bounded
\* procedure, as they are when it is visited, are united into p.plan.Bounds
UnionTimeBounds(st, pr) ==
    IF st.ps[pr].kind \in BoundedKinds
    THEN [st EXCEPT !.bounds = Union(@, TimeBounds(st.ps[pr]))]
    ELSE st

\* body of the second ap.Do of Plan for procedure pr
VisitProcedure(st, pr) ==
    LET st1 == PushDownAndRemove(st, pr)
    IN IF st1.panic THEN st1 ELSE UnionTimeBounds(st1, pr)

\* Plan up to the end of the first ap.Do: every procedure of the logical
\* plan is entered in p.plan.Procedures and p.plan.Order
PlanPopulate ==
    /\ ppc = "idle"
    /\ planProcs' = 1..nprocs
    /\ planOrder' = [i \in 1..nprocs |-> i]
    /\ results' = <<>>
    /\ planBounds' = ZeroBounds
    /\ vi' = 1
    /\ ppc' = "visit"
    /\ UNCHANGED <<nprocs, procs, logical, planErr, visited>>

\* one step of the second ap.Do of Plan: the procedure ap.Order[vi]
PlanVisit ==
    /\ ppc = "visit"
    /\ vi <= nprocs
    /\ LET st0 == [ps |-> procs, present |-> planProcs, order |-> planOrder,
                   bounds |-> planBounds, panic |-> FALSE, roots |-> <<>>,
                   through |-> <<>>, blocked |-> FALSE]
           st == VisitProcedure(st0, vi)
       IN /\ procs' = st.ps
          /\ planProcs' = st.present
          /\ planOrder' = st.order
          /\ planBounds' = st.bounds
          /\ visited' = [visited EXCEPT ![vi] = [roots |-> st.roots,
                                                 through |-> st.through,
                                                 blocked |-> st.blocked,
                                                 seen |-> TRUE]]
          /\ ppc' = IF st.panic THEN "panic"
                    ELSE IF vi = nprocs THEN "results" ELSE "visit"
          /\ vi' = vi + 1
    /\ UNCHANGED <<nprocs, logical, results, planErr>>

Childless_Parentless(ps, order) ==
    SelectSeq(order, LAMBDA id : Len(ps[id].parents) = 0)

\* the IDs of order whose procedure has no children
Childless(ps, order) ==
    SelectSeq(order, LAMBDA id : Len(ps[id].children) = 0)

\* the error of return p.plan, nil
PlanReturnErr == "nil"

\* the p.plan.Do that collects Results, and the return of Plan
PlanResults ==
    /\ ppc = "results"
    /\ results' = Childless(procs, planOrder)
    /\ planErr' = PlanReturnErr
    /\ ppc' = "done"
    /\ UNCHANGED <<nprocs, procs, logical, planProcs, planOrder, planBounds, vi,
                   visited>>

\* ------------------------------------------------------ claims: planner

\* the pushdown of procedure id failed: its search met a procedure that is
\* neither the rule's Root nor in its Through set, or it reached no Root
PushDownFailed(id) ==
    /\ logical[id].kind \in PushDownKinds
    /\ visited[id].seen
    /\ visited[id].blocked \/ visited[id].roots = <<>>

InSeq(ids, id) == \E i \in 1..Len(ids) : ids[i] = id

NoDuplicates(ids) == \A i, j \in 1..Len(ids) : ids[i] = ids[j] => i = j

\* C8: a PushDown procedure whose pushdown failed is not removed: after Plan
\* it is still in Procedures and Order, with the edges it had
C8_FailedPushDownKept ==
    ppc = "done" =>
       \A id \in 1..nprocs :
          PushDownFailed(id) =>
             /\ id \in planProcs
             /\ InSeq(planOrder, id)
             /\ \A q \in 1..nprocs :
                   InSeq(procs[id].parents, q) => InSeq(procs[q].children, id)
             /\ \A c \in 1..nprocs :
                   InSeq(procs[id].children, c) => InSeq(procs[c].parents, id)

\* C9: after Plan no remaining procedure lists the same ProcedureID twice
\* among its Parents or among its Children
C9_SpliceDeduplicates ==
    ppc = "done" =>
       \A id \in planProcs :
          NoDuplicates(procs[id].parents) /\ NoDuplicates(procs[id].children)

\* ids with the entry at position k replaced by the list by
SpliceAt(ids, k, by) == SubSeq(ids, 1, k - 1) \o by \o SubSeq(ids, k + 1, Len(ids))

\* C10: when the procedure X visited is removed, X's parents take X's place
\* in the Parents of each child of X, and X's children take X's place in the
\* Children of each parent of X
C10_SpliceKeepsOrder ==
    [][(ppc = "visit" /\ ppc' # "panic" /\ vi \in planProcs /\ vi \notin planProcs') =>
          /\ \A c \in 1..nprocs :
                InSeq(procs[vi].children, c) =>
                   procs'[c].parents =
                      SpliceAt(procs[c].parents, IndexOf(procs[c].parents, vi, 1),
                               procs[vi].parents)
          /\ \A q \in 1..nprocs :
                InSeq(procs[vi].parents, q) =>
                   procs'[q].children =
                      SpliceAt(procs[q].children, IndexOf(procs[q].children, vi, 1),
                               procs[vi].children)]_vars

\* a procedure with no children in the logical plan whose spec does not
\* implement PushDown
Terminal(id) ==
    /\ id \in 1..nprocs
    /\ logical[id].children = <<>>
    /\ logical[id].kind \notin PushDownKinds

\* C11: after Plan every procedure that has no children in the logical plan
\* and whose spec does not implement PushDown is in Procedures and in Results
C11_TerminalsPreserved ==
    ppc = "done" =>
       \A id \in 1..nprocs :
          Terminal(id) => id \in planProcs /\ InSeq(results, id)

\* Plan has returned for a plan in which a pushdown procedure was removed
\* upstream of a terminal join
C11_Witness ==
    /\ ppc = "done"
    /\ \E id \in 1..nprocs : Terminal(id) /\ logical[id].kind = JoinKind
    /\ planProcs # 1..nprocs

\* C12: after Plan, Results holds exactly the remaining procedures without
\* children, each once, in the order of Order
C12_ResultsAreChildless ==
    ppc = "done" =>
       /\ \A id \in 1..MaxProcs :
             InSeq(results, id) <=> (id \in planProcs /\ procs[id].children = <<>>)
       /\ NoDuplicates(results)
       /\ \A i, j \in 1..Len(results) :
             i < j => IndexOf(planOrder, results[i], 1) < IndexOf(planOrder, results[j], 1)

\* Plan has returned with two results, and with a procedure left that is
\* no result, after a removal
C12_Witness ==
    /\ ppc = "done"
    /\ Len(results) = 2
    /\ \E id \in planProcs : ~InSeq(results, id)
    /\ planProcs # 1..nprocs

\* the range procedures whose pushdown reached the select s
RangesInto(s) ==
    {r \in 1..nprocs : logical[r].kind = RangeKind /\ InSeq(visited[r].roots, s)}

\* the member of a non-empty set of IDs that comes last in the plan order
Latest(ids) == CHOOSE r \in ids : \A q \in ids : q <= r

\* C14: when two ranges have pushed down into one select, after Plan the
\* select has BoundsSet and the bounds of the range later in Order, and the
\* ranges are removed
C14_SecondRangeOverrides ==
    ppc = "done" =>
       \A s \in 1..nprocs :
          (logical[s].kind = SelectKind /\ Cardinality(RangesInto(s)) >= 2) =>
             /\ procs[s].boundsSet
             /\ procs[s].bounds = logical[Latest(RangesInto(s))].bounds
             /\ RangesInto(s) \cap planProcs = {}

\* Plan has returned after two ranges pushed down into one select
C14_Witness ==
    /\ ppc = "done"
    /\ \E s \in 1..nprocs :
          /\ logical[s].kind = SelectKind
          /\ Cardinality(RangesInto(s)) = 2
          /\ procs[s].bounds # logical[s].bounds

\* the interval b lies within the interval o; the zero value is empty
Contained(b, o) ==
    \/ b = ZeroBounds
    \/ o # ZeroBounds /\ o.start <= b.start /\ b.stop <= o.stop

\* C13: after Plan the time bounds of every remaining bounded procedure,
\* those a range pushed into a select included, lie within PlanSpec.Bounds
C13_BoundsCovered ==
    ppc = "done" =>
       \A id \in planProcs :
          procs[id].kind \in BoundedKinds =>
             Contained(TimeBounds(procs[id]), planBounds)

\* two procedures of the kind have pushed down into the select s
PushedTwice(kind, s) ==
    \E r1, r2 \in 1..nprocs :
       /\ r1 < r2
       /\ logical[r1].kind = kind /\ logical[r2].kind = kind
       /\ InSeq(visited[r1].roots, s) /\ InSeq(visited[r2].roots, s)

\* a range or a where has pushed into a select whose BoundsSet or WhereSet
\* bit was already set
AmbiguousPushDown ==
    \E s \in 1..nprocs :
       /\ logical[s].kind = SelectKind
       /\ PushedTwice(RangeKind, s) \/ PushedTwice(WhereKind, s)

\* C15: when a range or where pushed into a select whose bit was already
\* set, Plan returns an error that records the ambiguity
C15_AmbiguityRecorded ==
    (ppc = "done" /\ AmbiguousPushDown) => planErr # "nil"

\* Plan never dereferences a procedure that is no longer in p.plan.Procedures
PlanNeverPanics == ppc # "panic"

\* the procedures within k parent edges of pr in the plan ps, along paths
\* whose procedures between pr and the end all have a kind in through
RECURSIVE Within(_, _, _, _)
Within(ps, through, pr, k) ==
    IF k = 0 THEN {pr}
    ELSE LET near == Within(ps, through, pr, k - 1)
         IN near \cup {q \in 1..MaxProcs :
                          \E x \in near :
                             /\ x = pr \/ ps[x].kind \in through
                             /\ InSeq(ps[x].parents, q)}

\* the ancestors of pr of the kind rule.Root that a path through rule.Through
\* reaches
RootsReached(ps, rule, pr) ==
    {q \in Within(ps, rule.Through, pr, MaxProcs) \ {pr} :
        ps[q].kind = rule.Root}

SeqSet(ids) == {ids[i] : i \in 1..Len(ids)}

\* C26: after Plan every ID among the Parents and Children of a remaining
\* procedure, in Order and in Results is a key of Procedures; c is among the
\* Children of p exactly when p is among the Parents of c; and Order lists
\* the keys of Procedures, each once, in the order of the logical plan
C26_PlanWellFormed ==
    ppc = "done" =>
       /\ \A id \in planProcs :
             /\ SeqSet(procs[id].parents) \subseteq planProcs
             /\ SeqSet(procs[id].children) \subseteq planProcs
       /\ SeqSet(planOrder) \subseteq planProcs
       /\ SeqSet(results) \subseteq planProcs
       /\ \A p, c \in planProcs :
             InSeq(procs[p].children, c) <=> InSeq(procs[c].parents, p)
       /\ SeqSet(planOrder) = planProcs
       /\ NoDuplicates(planOrder)
       /\ \A i, j \in 1..Len(planOrder) : i < j => planOrder[i] < planOrder[j]

\* Plan has returned after it removed a procedure between two that remain
C26_Witness ==
    /\ ppc = "done"
    /\ \E p, x, c \in 1..nprocs :
          /\ p \in planProcs /\ c \in planProcs /\ x \notin planProcs
          /\ InSeq(logical[p].children, x) /\ InSeq(logical[x].children, c)
          /\ InSeq(procs[p].children, c)

\* ------------------------------------------------------- part III: functions

\* no function under call
NoValue == <<>>

FnParked ==
    /\ fn = "none"
    /\ fnArgs = NoValue
    /\ fnRet = NoValue
    /\ fpc = "returned"

\* a call of the function f on one of the argument lists of inputs
FnInit(f, inputs) ==
    /\ fn = f
    /\ fnArgs \in inputs
    /\ fnRet = NoValue
    /\ fpc = "call"

\* the call of f, result being what f returns on fnArgs
FnCall(f, result) ==
    /\ fn = f
    /\ fpc = "call"
    /\ fnRet' = result
    /\ fpc' = "returned"
    /\ UNCHANGED <<fn, fnArgs>>

Returned(f) == fn = f /\ fpc = "returned"

\* ---- the search of the planner

\* Plan, given an Order that lists parents first, has removed every ancestor
\* of a Through kind before it searches from a procedure. Search is the
\* search from pr on the plan ps before any removal, as Plan starts it for a
\* procedure that Order lists before its ancestors.
Search(ps, pr) ==
    LET st == pushDownAndSearch(
                  [ps |-> ps, panic |-> FALSE, roots |-> <<>>,
                   through |-> <<>>, blocked |-> FALSE],
                  {id \in 1..MaxProcs : ps[id].kind # "none"}, pr, pr, 1)
    IN [roots |-> st.roots, through |-> st.through, blocked |-> st.blocked,
        panic |-> st.panic]

\* most procedures of a plan that is searched before any removal
MaxSearch == 3

\* the PushDown procedures of the logical plans of at most MaxSearch
\* procedures
SearchInputs ==
    {x \in {<<LogicalProcedures(shape), pr>> :
               shape \in UNION {LogicalShapes(n) : n \in 1..MaxSearch},
               pr \in 1..MaxSearch} :
        x[1][x[2]].kind \in PushDownKinds}

CallSearch == FnCall("pushDownAndSearch", Search(fnArgs[1], fnArgs[2]))

\* what a search from pr on the plan ps is to have done: PushDown invoked on
\* exactly the roots that a path through the rule's Through kinds reaches,
\* the search gone through procedures of a Through kind only, and no parent
\* looked up that is not in p.plan.Procedures
SearchedWell(ps, pr, roots, through, panic) ==
    LET rule == PushDownRule(ps[pr].kind)
    IN /\ ~panic
       /\ SeqSet(roots) = RootsReached(ps, rule, pr)
       /\ SeqSet(through) =
              {q \in Within(ps, rule.Through, pr, MaxProcs) \ {pr} :
                  ps[q].kind \in rule.Through}

\* C24: a search has searched well, when Plan visits a PushDown procedure
\* (on the plan as it is then) and on a plan before any removal
C24_PushDownSearch ==
    [][/\ (ppc = "visit" /\ vi' # vi /\ procs[vi].kind \in PushDownKinds) =>
             SearchedWell(procs, vi, visited'[vi].roots, visited'[vi].through,
                          ppc' = "panic")
       /\ (fn = "pushDownAndSearch" /\ fpc = "call" /\ fpc' = "returned") =>
             SearchedWell(fnArgs[1], fnArgs[2], fnRet'.roots, fnRet'.through,
                          fnRet'.panic)]_vars

\* a search on a plan before any removal has gone through a where to a
\* select
C24_Witness ==
    /\ Returned("pushDownAndSearch")
    /\ \E q \in SeqSet(fnRet.through) : fnArgs[1][q].kind = WhereKind
    /\ fnRet.roots # <<>>

\* ---- Plan on a range and a where in either order

RECURSIVE Visits(_, _, _)
\* the second ap.Do of Plan from the procedure pr on
Visits(st, pr, n) ==
    IF st.panic \/ pr > n THEN st
    ELSE Visits(VisitProcedure(st, pr), pr + 1, n)

\* Plan as a function of the logical plan ps of the procedures 1..n: what
\* PlanPopulate, PlanVisit for each procedure and PlanResults leave
PlanOf(ps, n) ==
    LET st == Visits([ps |-> ps, present |-> 1..n,
                      order |-> [i \in 1..n |-> i], bounds |-> ZeroBounds,
                      panic |-> FALSE, roots |-> <<>>, through |-> <<>>,
                      blocked |-> FALSE], 1, n)
    IN [Procedures |-> [id \in 1..MaxProcs |->
                          IF id \in st.present THEN st.ps[id]
                          ELSE NoProcedure],
        Order |-> st.order,
        Results |-> Childless(st.ps, st.order),
        Bounds |-> st.bounds,
        panic |-> st.panic]

\* the plan ps with the specs of the procedures r and w exchanged: each
\* keeps its ID, its parents and its children
Exchanged(ps, r, w) ==
    LET spec(to, from) ==
            [ps[to] EXCEPT !.kind = ps[from].kind,
                           !.bounds = ps[from].bounds,
                           !.where = ps[from].where,
                           !.limit = ps[from].limit]
    IN [ps EXCEPT ![r] = spec(r, w), ![w] = spec(w, r)]

\* largest start of the bounds of the range and largest predicate of the
\* where of a chain
MaxChainArg == 3

\* the logical plans with one range r and one where w, the range chained on
\* a select s and the where on the range
Chains ==
    {x \in {[ps |-> LogicalProcedures(shape), n |-> Len(shape), s |-> t[1],
             r |-> t[2], w |-> t[3]] :
               shape \in UNION {LogicalShapes(n) : n \in 1..MaxProcs},
               t \in {u \in (1..MaxProcs) \X (1..MaxProcs) \X (1..MaxProcs) :
                         u[1] < u[2] /\ u[2] < u[3]}} :
        /\ x.ps[x.s].kind = SelectKind
        /\ x.ps[x.r].kind = RangeKind /\ x.ps[x.r].parents = <<x.s>>
        /\ x.ps[x.w].kind = WhereKind /\ x.ps[x.w].parents = <<x.r>>
        /\ \A id \in 1..MaxProcs :
              x.ps[id].kind \in {RangeKind, WhereKind} => id \in {x.r, x.w}}

\* the chains, the range and the where with each of their arguments
ChainInputs ==
    {[x EXCEPT !.ps[x.r].bounds = RangeBounds(a[1]), !.ps[x.w].where = a[2]] :
        x \in Chains, a \in (1..MaxChainArg) \X (1..MaxChainArg)}

\* Plan on the chain select, range, where and on the chain select, where,
\* range
PlanBoth(x) ==
    [rangeFirst |-> PlanOf(x.ps, x.n),
     whereFirst |-> PlanOf(Exchanged(x.ps, x.r, x.w), x.n)]

CallPlanBoth == FnCall("Plan", PlanBoth(fnArgs))

\* the fields of the spec of a select but for the given ones
SpecBut(p, fields) ==
    [f \in {"boundsSet", "bounds", "whereSet", "where", "limitSet", "limit"}
            \ fields |-> p[f]]

\* C25: range.PushDown leaves every field of the select spec but Bounds and
\* BoundsSet as it is, where.PushDown every field but Where and WhereSet, and
\* Plan leaves the same plan, with the same select spec, for a range and a
\* where chained on a select in either order
C25_PushDownCommutes ==
    Returned("Plan") =>
        LET select == fnArgs.ps[fnArgs.s]
            range == fnArgs.ps[fnArgs.r]
            where == fnArgs.ps[fnArgs.w]
        IN /\ SpecBut(PushDown(range, select), {"boundsSet", "bounds"})
                 = SpecBut(select, {"boundsSet", "bounds"})
           /\ SpecBut(PushDown(where, select), {"whereSet", "where"})
                 = SpecBut(select, {"whereSet", "where"})
           /\ fnRet.rangeFirst = fnRet.whereFirst

\* both plans are made, and in them the select has the bounds of the range
\* and the predicate of the where
C25_Witness ==
    /\ Returned("Plan")
    /\ ~fnRet.rangeFirst.panic
    /\ LET select == fnRet.whereFirst.Procedures[fnArgs.s]
       IN /\ select.boundsSet /\ select.bounds = fnArgs.ps[fnArgs.r].bounds
          /\ select.whereSet /\ select.where = fnArgs.ps[fnArgs.w].where
    /\ fnArgs.r \notin SeqSet(fnRet.whereFirst.Order)

\* ---- range operation spec

\* largest relative offset and largest absolute time of an argument
MaxDur == 2
MaxAbs == 1

\* the zero value of query.Time
ZeroTime == [isRelative |-> FALSE, relative |-> 0, absolute |-> 0]

\* ifql.Value: a duration, a time or a string
DurationValue(d) == [type |-> "duration", v |-> d]
TimeValue(t) == [type |-> "time", v |-> t]
StringValue == [type |-> "string", v |-> 0]

Values ==
    {DurationValue(d) : d \in (0 - MaxDur)..MaxDur}
       \cup {TimeValue(t) : t \in 0..MaxAbs} \cup {StringValue}

\* ifql.ToQueryTime: a duration is a time relative to now, a time is absolute,
\* any other value is an error
ToQueryTime(value) ==
    IF value.type = "duration"
    THEN [time |-> [ZeroTime EXCEPT !.isRelative = TRUE, !.relative = value.v],
          err |-> "nil"]
    ELSE IF value.type = "time"
    THEN [time |-> [ZeroTime EXCEPT !.absolute = value.v], err |-> "nil"]
    ELSE [time |-> ZeroTime, err |-> "value is not a time"]

\* the argument maps of range: any of start and stop, with any value
RangeArgs ==
    UNION {[keys -> Values] : keys \in SUBSET {"start", "stop"}}

\* a nil OperationSpec with an error
SpecError(err) == [spec |-> NoValue, err |-> err]

\* createRangeOpSpec from the stop argument on: Stop is assigned only when
\* the argument is there
RangeStop(a, spec) ==
    IF "stop" \in DOMAIN a
    THEN LET stop == ToQueryTime(a["stop"])
         IN IF stop.err # "nil" THEN SpecError(stop.err)
            ELSE [spec |-> [spec EXCEPT !.Stop = stop.time], err |-> "nil"]
    ELSE [spec |-> spec, err |-> "nil"]

createRangeOpSpec(a) ==
    IF "start" \notin DOMAIN a
    THEN SpecError("range function requires argument start")
    ELSE LET start == ToQueryTime(a["start"])
         IN IF start.err # "nil" THEN SpecError(start.err)
            ELSE RangeStop(a, [Start |-> start.time, Stop |-> ZeroTime])

CallCreateRangeOpSpec == FnCall("createRangeOpSpec", createRangeOpSpec(fnArgs))

\* the relative time now: IsRelative with offset zero
RelativeNow == [ZeroTime EXCEPT !.isRelative = TRUE]

\* C16: range(start: S) without a stop argument gives Start = S and Stop the
\* relative time now, and range without a start argument is an error
C16_RangeDefaultStop ==
    Returned("createRangeOpSpec") =>
       /\ "start" \notin DOMAIN fnArgs => fnRet.err # "nil"
       /\ (DOMAIN fnArgs = {"start"} /\ ToQueryTime(fnArgs["start"]).err = "nil") =>
             /\ fnRet.err = "nil"
             /\ fnRet.spec.Start = ToQueryTime(fnArgs["start"]).time
             /\ fnRet.spec.Stop = RelativeNow

\* ---- merge-join

\* most rows a parent sends for one partition, and the latest row time
MaxJoinRows == 2
MaxJoinTime == 2

\* the values of the On tag column t1, in sort order
TagOrder == <<"a", "b">>

Tags == {TagOrder[i] : i \in 1..Len(TagOrder)}

\* the position of a tag value in the sort order
TagRank(tag) == CHOOSE i \in 1..Len(TagOrder) : TagOrder[i] = tag

\* the join key of a row: its time and its On tag
JoinKeys == (1..MaxJoinTime) \X Tags

KeyOf(row) == <<row.time, row.tag>>

KeyLess(k1, k2) ==
    \/ k1[1] < k2[1]
    \/ k1[1] = k2[1] /\ TagRank(k1[2]) < TagRank(k2[2])

\* the rows a parent has sent for the partition: any keys in any order, the
\* i-th row of parent 0 with _value i, the j-th row of parent 1 with _value
\* 10 * j, so that a sum names the two rows it was made of
ParentRows(scale) ==
    UNION {{[i \in 1..n |-> [time |-> ks[i][1], tag |-> ks[i][2], value |-> scale * i]] :
               ks \in [1..n -> JoinKeys]} : n \in 0..MaxJoinRows}

JoinInputs == [left : ParentRows(1), right : ParentRows(10)]

RECURSIVE InsertRow(_, _)
\* rows, sorted by key, with row put after the rows of no greater key
InsertRow(rows, row) ==
    IF rows = <<>> THEN <<row>>
    ELSE IF KeyLess(KeyOf(row), KeyOf(Head(rows))) THEN <<row>> \o rows
    ELSE <<Head(rows)>> \o InsertRow(Tail(rows), row)

RECURSIVE SortRows(_)
\* the buffer of a parent sorted by (time, On tags), equal keys in the order
\* of arrival
SortRows(rows) ==
    IF rows = <<>> THEN <<>>
    ELSE InsertRow(SortRows(SubSeq(rows, 1, Len(rows) - 1)), rows[Len(rows)])

RECURSIVE GroupEnd(_, _)
\* the last index of the run of rows with the key of rows[i]
GroupEnd(rows, i) ==
    IF i < Len(rows) /\ KeyOf(rows[i + 1]) = KeyOf(rows[i])
    THEN GroupEnd(rows, i + 1)
    ELSE i

\* the join expression a["_value"] + b["_value"] on a matched pair; the
\* output row has the matched time and tag
Eval(ra, rb) == [time |-> ra.time, tag |-> ra.tag, value |-> ra.value + rb.value]

\* every row of ls with every row of rs, ls outermost
Cross(ls, rs) ==
    [k \in 1..(Len(ls) * Len(rs)) |->
        Eval(ls[((k - 1) \div Len(rs)) + 1], rs[((k - 1) % Len(rs)) + 1])]

RECURSIVE Merge_HeadsOnly(_, _, _, _)
Merge_HeadsOnly(l, r, i, j) ==
    IF i > Len(l) \/ j > Len(r) THEN <<>>
    ELSE IF KeyLess(KeyOf(l[i]), KeyOf(r[j])) THEN Merge_HeadsOnly(l, r, i + 1, j)
    ELSE IF KeyLess(KeyOf(r[j]), KeyOf(l[i])) THEN Merge_HeadsOnly(l, r, i, j + 1)
    ELSE <<Eval(l[i], r[j])>> \o Merge_HeadsOnly(l, r, i + 1, j + 1)

RECURSIVE Merge(_, _, _, _)
\* the merge of the sorted buffers l and r from rows i and j on: the smaller
\* key is skipped, equal keys give the product of their two runs
Merge(l, r, i, j) ==
    IF i > Len(l) \/ j > Len(r) THEN <<>>
    ELSE IF KeyLess(KeyOf(l[i]), KeyOf(r[j])) THEN Merge(l, r, i + 1, j)
    ELSE IF KeyLess(KeyOf(r[j]), KeyOf(l[i])) THEN Merge(l, r, i, j + 1)
    ELSE LET ie == GroupEnd(l, i)
             je == GroupEnd(r, j)
         IN Cross(SubSeq(l, i, ie), SubSeq(r, j, je)) \o Merge(l, r, ie + 1, je + 1)

\* the join of a partition once both parents have passed its bounds
MergeJoin(in) == Merge(SortRows(in.left), SortRows(in.right), 1, 1)

CallMergeJoin == FnCall("mergeJoin", MergeJoin(fnArgs))

\* the pairs (i, j) of a row of parent 0 and a row of parent 1 with equal
\* time and equal On tag
Matches(in) ==
    {p \in (1..Len(in.left)) \X (1..Len(in.right)) :
        KeyOf(in.left[p[1]]) = KeyOf(in.right[p[2]])}

\* the number of rows of a buffer with the key
BufferSize(rows, key) == Cardinality({i \in 1..Len(rows) : KeyOf(rows[i]) = key})

\* C17: the join output has exactly one row for every pair of a row of
\* parent 0 and a row of parent 1 with equal time and equal On tags, with that
\* time and the sum of the two values, and nothing else; per key it has no
\* more rows than the product of the two buffer sizes
C17_InnerEquiJoin ==
    Returned("mergeJoin") =>
       /\ Len(fnRet) = Cardinality(Matches(fnArgs))
       /\ \A p \in Matches(fnArgs) :
             \E k \in 1..Len(fnRet) :
                fnRet[k] = [time |-> fnArgs.left[p[1]].time,
                            tag |-> fnArgs.left[p[1]].tag,
                            value |-> fnArgs.left[p[1]].value + fnArgs.right[p[2]].value]
       /\ \A key \in JoinKeys :
             Cardinality({k \in 1..Len(fnRet) : KeyOf(fnRet[k]) = key})
                <= BufferSize(fnArgs.left, key) * BufferSize(fnArgs.right, key)

\* a join in which a key held twice by parent 0 matched one row of parent 1
\* and another row of parent 1 matched nothing
C17_Witness ==
    /\ Returned("mergeJoin")
    /\ Len(fnArgs.left) = 2 /\ Len(fnArgs.right) = 2
    /\ KeyOf(fnArgs.left[1]) = KeyOf(fnArgs.left[2])
    /\ Cardinality(Matches(fnArgs)) = 2
    /\ Len(fnRet) = 2

\* -------------------------------------------------------- part IV: selectors

\* largest _value, rows of a block, number of windows, and most Process calls
MaxSelValue == 1
MaxSelRows == 2
MaxSelWindows == 2
MaxSelBlocks == 2

\* the bounds of the w-th window: windows of MaxSelRows ticks, end to end
WindowBounds(w) == [start |-> (w - 1) * MaxSelRows, stop |-> w * MaxSelRows]

\* the non-common tag t2 of the i-th row of a block: x and y in turn
RowTag(i) == IF i % 2 = 1 THEN "x" ELSE "y"

\* the rows of a block of the bounds: one row per tick of the window, with
\* any values
BlockRows(bounds) ==
    {[i \in 1..MaxSelRows |-> [time |-> bounds.start + i - 1, value |-> vs[i],
                               t2 |-> RowTag(i)]] :
        vs \in [1..MaxSelRows -> 0..MaxSelValue]}

\* the input blocks: bounds, the value of the common tag t1, and rows
SelBlocks ==
    UNION {[bounds : {WindowBounds(w)}, t1 : Tags, rows : BlockRows(WindowBounds(w))] :
              w \in 1..MaxSelWindows}

NoBlock == [bounds |-> WindowBounds(0), t1 |-> "", rows |-> <<>>]

\* SelectorConfig{UseStartTime, UseRowTime}: the default and each flag alone
SelectorConfigs ==
    {c \in [UseStartTime : BOOLEAN, UseRowTime : BOOLEAN] :
        ~(c.UseStartTime /\ c.UseRowTime)}

SelParked ==
    /\ selKind = "none"
    /\ selConfig = [UseStartTime |-> FALSE, UseRowTime |-> FALSE]
    /\ selCache = <<>>
    /\ selBlock = NoBlock
    /\ selCount = 0

\* NewRowSelectorTransformation with a MinSelector, NewIndexSelectorTransformation
\* with a FirstSelector, over an empty cache
SelInit ==
    /\ selKind \in {"row", "index"}
    /\ selConfig \in SelectorConfigs
    /\ selCache = <<>>
    /\ selBlock = NoBlock
    /\ selCount = 0

RECURSIVE MinIndex(_, _)
\* the index of the first row among rows[1..n] of the least value
MinIndex(rows, n) ==
    IF n = 1 THEN 1
    ELSE LET m == MinIndex(rows, n - 1)
         IN IF rows[n].value < rows[m].value THEN n ELSE m

SelectedIndex_Last(kind, rows) == Len(rows)

\* the row of a block that the selector picks: MinSelector the least value,
\* FirstSelector the first row
SelectedIndex(kind, rows) ==
    IF kind = "row" THEN MinIndex(rows, Len(rows)) ELSE 1

OutputTime_Stop(config, bounds, row) == bounds.stop

\* the time of the output row
OutputTime(config, bounds, row) ==
    IF config.UseRowTime THEN row.time
    ELSE IF config.UseStartTime THEN bounds.start
    ELSE bounds.stop

\* the output row for the selected row of block b: the common tag copied
\* from the block, the other columns from the row
OutputRow(config, b, row) ==
    [time |-> OutputTime(config, b.bounds, row), value |-> row.value,
     t1 |-> b.t1, t2 |-> row.t2]

\* the index of the cache block of the partition of b, 0 if there is none
RECURSIVE CacheIndex(_, _, _)
CacheIndex(cache, b, i) ==
    IF i > Len(cache) THEN 0
    ELSE IF cache[i].bounds = b.bounds /\ cache[i].t1 = b.t1 THEN i
    ELSE CacheIndex(cache, b, i + 1)

\* the one row a partition keeps when it holds old and a further block
\* selects new: the lesser value for the row selector, the earlier row for
\* the index selector
KeepRow(kind, old, new) ==
    IF kind = "row" /\ new.value < old.value THEN new ELSE old

\* the cache after Process of block b
ProcessBlock(kind, config, cache, b) ==
    LET new == OutputRow(config, b, b.rows[SelectedIndex(kind, b.rows)])
        k == CacheIndex(cache, b, 1)
    IN IF k = 0
       THEN Append(cache, [bounds |-> b.bounds, t1 |-> b.t1, rows |-> <<new>>])
       ELSE [cache EXCEPT ![k].rows = <<KeepRow(kind, @[1], new)>>]

\* selector.Process(parentID, b)
SelProcess ==
    /\ selKind # "none"
    /\ selCount < MaxSelBlocks
    /\ \E b \in SelBlocks :
          /\ selBlock' = b
          /\ selCache' = ProcessBlock(selKind, selConfig, selCache, b)
    /\ selCount' = selCount + 1
    /\ UNCHANGED <<selKind, selConfig>>

\* ------------------------------------------------------- claims: selectors

\* the cache blocks of the partition of b
PartitionBlocks(cache, b) ==
    {k \in 1..Len(cache) : cache[k].bounds = b.bounds /\ cache[k].t1 = b.t1}

\* C18: the time of a partition's output row is the partition's Stop by
\* default and its Start under UseStartTime; under UseRowTime the row that
\* Process selects carries its own time
C18_OutputTime ==
    [][selCount' = selCount + 1 =>
          /\ \A k \in 1..Len(selCache') :
                \A i \in 1..Len(selCache'[k].rows) :
                   LET out == selCache'[k].rows[i]
                       bounds == selCache'[k].bounds
                   IN /\ (~selConfig.UseStartTime /\ ~selConfig.UseRowTime)
                            => out.time = bounds.stop
                      /\ selConfig.UseStartTime => out.time = bounds.start
          /\ selConfig.UseRowTime =>
                \A k \in PartitionBlocks(selCache', selBlock') :
                   \/ k <= Len(selCache) /\ selCache'[k] = selCache[k]
                   \/ \E i \in 1..Len(selBlock'.rows) :
                         /\ selCache'[k].rows[1].time = selBlock'.rows[i].time
                         /\ selCache'[k].rows[1].value = selBlock'.rows[i].value
                         /\ selCache'[k].rows[1].t2 = selBlock'.rows[i].t2]_vars

\* a selector with UseRowTime has picked a row that is not the first of its
\* block, in the second window
C18_Witness ==
    /\ selConfig.UseRowTime
    /\ selCount > 0
    /\ selBlock.bounds = WindowBounds(2)
    /\ Len(selBlock.rows) = 2
    /\ \E k \in PartitionBlocks(selCache, selBlock) :
          selCache[k].rows[1].time = selBlock.rows[2].time

\* the least value among rows
MinValue(rows) == rows[MinIndex(rows, Len(rows))].value

litMatcher(pos, val, ignoreCase) ==
    [t |-> "litMatcher", pos |-> pos, val |-> val, ignoreCase |-> ignoreCase]
anyMatcher(pos) == [t |-> "anyMatcher", pos |-> pos]
charClassMatcher(pos, val, chars, ranges, inverted) ==
    [t |-> "charClassMatcher", pos |-> pos, val |-> val, chars |-> chars,
     ranges |-> ranges, inverted |-> inverted]
ruleRefExpr(pos, name) == [t |-> "ruleRefExpr", pos |-> pos, name |-> name]
seqExpr(pos, exprs) == [t |-> "seqExpr", pos |-> pos, exprs |-> exprs]
choiceExpr(pos, alternatives) ==
    [t |-> "choiceExpr", pos |-> pos, alternatives |-> alternatives]
zeroOrMoreExpr(pos, expr) == [t |-> "zeroOrMoreExpr", pos |-> pos, expr |-> expr]
oneOrMoreExpr(pos, expr) == [t |-> "oneOrMoreExpr", pos |-> pos, expr |-> expr]
zeroOrOneExpr(pos, expr) == [t |-> "zeroOrOneExpr", pos |-> pos, expr |-> expr]
notExpr(pos, expr) == [t |-> "notExpr", pos |-> pos, expr |-> expr]
andExpr(pos, expr) == [t |-> "andExpr", pos |-> pos, expr |-> expr]
labeledExpr(pos, label, expr) ==
    [t |-> "labeledExpr", pos |-> pos, label |-> label, expr |-> expr]
actionExpr(pos, run, expr) ==
    [t |-> "actionExpr", pos |-> pos, run |-> run, expr |-> expr]

\* var g: the rules in the order of the source, runes as code points
g ==
    <<
      [t |-> "rule", pos |-> 60, name |-> "Start",
       expr |->
            actionExpr(70, "callonStart1",
                seqExpr(70, <<
                    ruleRefExpr(70, "__"),
                    labeledExpr(73, "program", ruleRefExpr(81, "Program")),
                    ruleRefExpr(89, "__") >>))],
      [t |-> "rule", pos |-> 127, name |-> "Program",
       expr |->
            actionExpr(139, "callonProgram1",
                labeledExpr(139, "body", ruleRefExpr(144, "SourceElements")))],
      [t |-> "rule", pos |-> 210, name |-> "SourceElements",
       expr |->
            actionExpr(229, "callonSourceElements1",
                seqExpr(229, <<
                    labeledExpr(229, "head",
                        ruleRefExpr(234, "SourceElement")),
                    labeledExpr(248, "tail",
                        zeroOrMoreExpr(253,
                            seqExpr(254, <<
                                ruleRefExpr(254, "__"),
                                ruleRefExpr(257, "SourceElement") >>))) >>))],
      [t |-> "rule", pos |-> 316, name |-> "SourceElement",
       expr |->
            ruleRefExpr(334, "Statement")],
      [t |-> "rule", pos |-> 345, name |-> "Statement",
       expr |->
            choiceExpr(359, <<
                labeledExpr(359, "varstmt",
                    ruleRefExpr(367, "VariableStatement")),
                labeledExpr(389, "exprstmt",
                    ruleRefExpr(398, "ExpressionStatement")) >>)],
      [t |-> "rule", pos |-> 419, name |-> "VariableStatement",
       expr |->
            actionExpr(441, "callonVariableStatement1",
                seqExpr(441, <<
                    ruleRefExpr(441, "VarToken"),
                    ruleRefExpr(450, "__"),
                    labeledExpr(453, "declarations",
                        ruleRefExpr(466, "VariableDeclarationList")) >>))],
      [t |-> "rule", pos |-> 549, name |-> "VariableDeclarationList",
       expr |->
            actionExpr(577, "callonVariableDeclarationList1",
                seqExpr(577, <<
                    labeledExpr(577, "head",
                        ruleRefExpr(582, "VariableDeclaration")),
                    labeledExpr(602, "tail",
                        zeroOrMoreExpr(607,
                            seqExpr(608, <<
                                ruleRefExpr(608, "__"),
                                litMatcher(611, <<44>>, FALSE),
                                ruleRefExpr(615, "__"),
                                ruleRefExpr(618, "VariableDeclaration") >>))) >>))],
      [t |-> "rule", pos |-> 685, name |-> "VarToken",
       expr |->
            litMatcher(696, <<118, 97, 114>>, FALSE)],
      [t |-> "rule", pos |-> 703, name |-> "VariableDeclaration",
       expr |->
            actionExpr(727, "callonVariableDeclaration1",
                seqExpr(727, <<
                    labeledExpr(727, "id", ruleRefExpr(730, "String")),
                    ruleRefExpr(737, "__"),
                    labeledExpr(740, "initExpr",
                        ruleRefExpr(749, "Initializer")) >>))],
      [t |-> "rule", pos |-> 820, name |-> "Initializer",
       expr |->
            actionExpr(836, "callonInitializer1",
                seqExpr(836, <<
                    litMatcher(836, <<61>>, FALSE),
                    notExpr(840, litMatcher(841, <<61>>, FALSE)),
                    ruleRefExpr(845, "__"),
                    labeledExpr(848, "expression",
                        ruleRefExpr(859, "VariableExpression")) >>))],
      [t |-> "rule", pos |-> 986, name |-> "VariableExpression",
       expr |->
            choiceExpr(1009, <<
                ruleRefExpr(1009, "CallExpression"),
                ruleRefExpr(1028, "StringLiteral"),
                ruleRefExpr(1046, "RegularExpressionLiteral"),
                ruleRefExpr(1075, "Duration"),
                ruleRefExpr(1088, "DateTime"),
                ruleRefExpr(1101, "Number"),
                ruleRefExpr(1112, "Field") >>)],
      [t |-> "rule", pos |-> 1175, name |-> "ExpressionStatement",
       expr |->
            actionExpr(1199, "callonExpressionStatement1",
                labeledExpr(1199, "call", ruleRefExpr(1204, "CallExpression")))],
      [t |-> "rule", pos |-> 1273, name |-> "MemberExpression",
       expr |->
            actionExpr(1294, "callonMemberExpression1",
                seqExpr(1294, <<
                    labeledExpr(1294, "head", ruleRefExpr(1299, "String")),
                    labeledExpr(1337, "tail",
                        zeroOrMoreExpr(1342,
                            actionExpr(1352, "callonMemberExpression7",
                                seqExpr(1352, <<
                                    ruleRefExpr(1352, "__"),
                                    litMatcher(1355, <<46>>, FALSE),
                                    ruleRefExpr(1359, "__"),
                                    labeledExpr(1362, "property",
                                        ruleRefExpr(1371, "String")) >>)))) >>))],
      [t |-> "rule", pos |-> 1493, name |-> "CallExpression",
       expr |->
            actionExpr(1512, "callonCallExpression1",
                seqExpr(1512, <<
                    labeledExpr(1512, "head",
                        actionExpr(1525, "callonCallExpression4",
                            seqExpr(1525, <<
                                labeledExpr(1525, "callee",
                                    ruleRefExpr(1532, "MemberExpression")),
                                ruleRefExpr(1549, "__"),
                                labeledExpr(1552, "args",
                                    ruleRefExpr(1557, "Arguments")) >>))),
                    labeledExpr(1640, "tail",
                        zeroOrMoreExpr(1645,
                            choiceExpr(1655, <<
                                actionExpr(1655, "callonCallExpression14",
                                    seqExpr(1655, <<
                                        ruleRefExpr(1655, "__"),
                                        labeledExpr(1658, "args",
                                            ruleRefExpr(1663, "Arguments")) >>)),
                                actionExpr(1745, "callonCallExpression19",
                                    seqExpr(1745, <<
                                        ruleRefExpr(1745, "__"),
                                        litMatcher(1748, <<46>>, FALSE),
                                        ruleRefExpr(1752, "__"),
                                        labeledExpr(1755, "property",
                                            ruleRefExpr(1764, "String")) >>)) >>))) >>))],
      [t |-> "rule", pos |-> 1911, name |-> "Arguments",
       expr |->
            actionExpr(1925, "callonArguments1",
                seqExpr(1925, <<
                    litMatcher(1925, <<40>>, FALSE),
                    ruleRefExpr(1929, "__"),
                    labeledExpr(1932, "args",
                        zeroOrOneExpr(1937, ruleRefExpr(1938, "FunctionArgs"))),
                    ruleRefExpr(1953, "__"),
                    litMatcher(1956, <<41>>, FALSE) >>))],
      [t |-> "rule", pos |-> 1992, name |-> "FunctionArgs",
       expr |->
            actionExpr(2009, "callonFunctionArgs1",
                seqExpr(2009, <<
                    labeledExpr(2009, "first",
                        ruleRefExpr(2015, "FunctionArg")),
                    ruleRefExpr(2027, "__"),
                    labeledExpr(2030, "rest",
                        zeroOrMoreExpr(2035,
                            ruleRefExpr(2035, "FunctionArgsRest"))) >>))],
      [t |-> "rule", pos |-> 2110, name |-> "FunctionArgsRest",
       expr |->
            actionExpr(2131, "callonFunctionArgsRest1",
                seqExpr(2131, <<
                    litMatcher(2131, <<44>>, FALSE),
                    ruleRefExpr(2135, "__"),
                    labeledExpr(2139, "arg", ruleRefExpr(2143, "FunctionArg")) >>))],
      [t |-> "rule", pos |-> 2186, name |-> "FunctionArg",
       expr |->
            actionExpr(2202, "callonFunctionArg1",
                seqExpr(2202, <<
                    labeledExpr(2202, "key", ruleRefExpr(2206, "String")),
                    ruleRefExpr(2213, "__"),
                    litMatcher(2217, <<58>>, FALSE),
                    ruleRefExpr(2221, "__"),
                    labeledExpr(2224, "value",
                        ruleRefExpr(2230, "FunctionArgValues")) >>))],
      [t |-> "rule", pos |-> 2306, name |-> "FunctionArgValues",
       expr |->
            choiceExpr(2328, <<
                ruleRefExpr(2328, "WhereExpr"),
                ruleRefExpr(2342, "StringLiteral"),
                ruleRefExpr(2360, "RegularExpressionLiteral"),
                ruleRefExpr(2389, "Duration"),
                ruleRefExpr(2402, "DateTime"),
                ruleRefExpr(2415, "Number"),
                ruleRefExpr(2426, "String") >>)],
      [t |-> "rule", pos |-> 2434, name |-> "WhereExpr",
       expr |->
            actionExpr(2448, "callonWhereExpr1",
                seqExpr(2448, <<
                    litMatcher(2448, <<123>>, FALSE),
                    ruleRefExpr(2452, "__"),
                    labeledExpr(2455, "expr", ruleRefExpr(2460, "Expr")),
                    ruleRefExpr(2465, "__"),
                    litMatcher(2469, <<125>>, FALSE) >>))],
      [t |-> "rule", pos |-> 2692, name |-> "Expr",
       expr |->
            ruleRefExpr(2701, "Logical")],
      [t |-> "rule", pos |-> 2710, name |-> "LogicalOperators",
       expr |->
            actionExpr(2731, "callonLogicalOperators1",
                choiceExpr(2732, <<
                    litMatcher(2732, <<111, 114>>, TRUE),
                    litMatcher(2740, <<97, 110, 100>>, TRUE) >>))],
      [t |-> "rule", pos |-> 2792, name |-> "Logical",
       expr |->
            actionExpr(2804, "callonLogical1",
                seqExpr(2804, <<
                    labeledExpr(2804, "head", ruleRefExpr(2809, "Equality")),
                    labeledExpr(2818, "tail",
                        zeroOrMoreExpr(2823,
                            seqExpr(2825, <<
                                ruleRefExpr(2825, "__"),
                                ruleRefExpr(2829, "LogicalOperators"),
                                ruleRefExpr(2846, "__"),
                                ruleRefExpr(2850, "Equality") >>))) >>))],
      [t |-> "rule", pos |-> 2929, name |-> "EqualityOperators",
       expr |->
            actionExpr(2951, "callonEqualityOperators1",
                choiceExpr(2952, <<
                    litMatcher(2952, <<61, 61>>, FALSE),
                    litMatcher(2959, <<33, 61>>, FALSE) >>))],
      [t |-> "rule", pos |-> 3005, name |-> "Equality",
       expr |->
            actionExpr(3018, "callonEquality1",
                seqExpr(3018, <<
                    labeledExpr(3018, "head", ruleRefExpr(3023, "Relational")),
                    labeledExpr(3034, "tail",
                        zeroOrMoreExpr(3039,
                            seqExpr(3041, <<
                                ruleRefExpr(3041, "__"),
                                ruleRefExpr(3044, "EqualityOperators"),
                                ruleRefExpr(3062, "__"),
                                ruleRefExpr(3065, "Relational") >>))) >>))],
      [t |-> "rule", pos |-> 3145, name |-> "RelationalOperators",
       expr |->
            actionExpr(3169, "callonRelationalOperators1",
                choiceExpr(3173, <<
                    litMatcher(3173, <<60, 61>>, FALSE),
                    litMatcher(3186, <<60>>, FALSE),
                    litMatcher(3198, <<62, 61>>, FALSE),
                    litMatcher(3211, <<62>>, FALSE),
                    litMatcher(3223, <<115, 116, 97, 114, 116, 115, 119, 105, 116, 104>>, TRUE),
                    litMatcher(3245, <<105, 110>>, TRUE),
                    litMatcher(3259, <<110, 111, 116, 32, 101, 109, 112, 116, 121>>, TRUE),
                    litMatcher(3280, <<101, 109, 112, 116, 121>>, TRUE) >>))],
      [t |-> "rule", pos |-> 3338, name |-> "Relational",
       expr |->
            actionExpr(3353, "callonRelational1",
                seqExpr(3353, <<
                    labeledExpr(3353, "head", ruleRefExpr(3358, "Additive")),
                    labeledExpr(3367, "tail",
                        zeroOrMoreExpr(3372,
                            seqExpr(3374, <<
                                ruleRefExpr(3374, "__"),
                                ruleRefExpr(3377, "RelationalOperators"),
                                ruleRefExpr(3397, "__"),
                                ruleRefExpr(3400, "Additive") >>))) >>))],
      [t |-> "rule", pos |-> 3478, name |-> "AdditiveOperator",
       expr |->
            actionExpr(3499, "callonAdditiveOperator1",
                choiceExpr(3500, <<
                    litMatcher(3500, <<43>>, FALSE),
                    litMatcher(3506, <<45>>, FALSE) >>))],
      [t |-> "rule", pos |-> 3554, name |-> "Additive",
       expr |->
            actionExpr(3567, "callonAdditive1",
                seqExpr(3567, <<
                    labeledExpr(3567, "head",
                        ruleRefExpr(3572, "Multiplicative")),
                    labeledExpr(3587, "tail",
                        zeroOrMoreExpr(3592,
                            seqExpr(3594, <<
                                ruleRefExpr(3594, "__"),
                                ruleRefExpr(3597, "AdditiveOperator"),
                                ruleRefExpr(3614, "__"),
                                ruleRefExpr(3617, "Multiplicative") >>))) >>))],
      [t |-> "rule", pos |-> 3702, name |-> "MultiplicativeOperator",
       expr |->
            actionExpr(3729, "callonMultiplicativeOperator1",
                choiceExpr(3730, <<
                    litMatcher(3730, <<42>>, FALSE),
                    litMatcher(3736, <<47>>, FALSE) >>))],
      [t |-> "rule", pos |-> 3780, name |-> "Multiplicative",
       expr |->
            actionExpr(3799, "callonMultiplicative1",
                seqExpr(3799, <<
                    labeledExpr(3799, "head", ruleRefExpr(3804, "Primary")),
                    labeledExpr(3812, "tail",
                        zeroOrMoreExpr(3817,
                            seqExpr(3819, <<
                                ruleRefExpr(3819, "__"),
                                ruleRefExpr(3822, "MultiplicativeOperator"),
                                ruleRefExpr(3845, "__"),
                                ruleRefExpr(3848, "Primary") >>))) >>))],
      [t |-> "rule", pos |-> 3925, name |-> "Primary",
       expr |->
            choiceExpr(3937, <<
                actionExpr(3937, "callonPrimary2",
                    seqExpr(3937, <<
                        litMatcher(3937, <<40>>, FALSE),
                        ruleRefExpr(3941, "__"),
                        labeledExpr(3944, "expr",
                            ruleRefExpr(3949, "Logical")),
                        ruleRefExpr(3957, "__"),
                        litMatcher(3960, <<41>>, FALSE) >>)),
                ruleRefExpr(3999, "StringLiteral"),
                ruleRefExpr(4017, "RegularExpressionLiteral"),
                ruleRefExpr(4046, "Duration"),
                ruleRefExpr(4059, "DateTime"),
                ruleRefExpr(4072, "Number"),
                ruleRefExpr(4083, "Field"),
                ruleRefExpr(4093, "String") >>)],
      [t |-> "rule", pos |-> 4101, name |-> "DateFullYear",
       expr |->
            seqExpr(4118, <<
                ruleRefExpr(4118, "Digit"),
                ruleRefExpr(4124, "Digit"),
                ruleRefExpr(4130, "Digit"),
                ruleRefExpr(4136, "Digit") >>)],
      [t |-> "rule", pos |-> 4143, name |-> "DateMonth",
       expr |->
            seqExpr(4168, <<
                ruleRefExpr(4168, "Digit"),
                ruleRefExpr(4174, "Digit") >>)],
      [t |-> "rule", pos |-> 4181, name |-> "DateMDay",
       expr |->
            seqExpr(4251, <<
                ruleRefExpr(4251, "Digit"),
                ruleRefExpr(4257, "Digit") >>)],
      [t |-> "rule", pos |-> 4264, name |-> "TimeHour",
       expr |->
            seqExpr(4288, <<
                ruleRefExpr(4288, "Digit"),
                ruleRefExpr(4294, "Digit") >>)],
      [t |-> "rule", pos |-> 4301, name |-> "TimeMinute",
       expr |->
            seqExpr(4327, <<
                ruleRefExpr(4327, "Digit"),
                ruleRefExpr(4333, "Digit") >>)],
      [t |-> "rule", pos |-> 4340, name |-> "TimeSecond",
       expr |->
            seqExpr(4412, <<
                ruleRefExpr(4412, "Digit"),
                ruleRefExpr(4418, "Digit") >>)],
      [t |-> "rule", pos |-> 4425, name |-> "TimeSecFrac",
       expr |->
            seqExpr(4441, <<
                litMatcher(4441, <<46>>, FALSE),
                oneOrMoreExpr(4445, ruleRefExpr(4445, "Digit")) >>)],
      [t |-> "rule", pos |-> 4453, name |-> "TimeNumOffset",
       expr |->
            seqExpr(4471, <<
                choiceExpr(4472, <<
                    litMatcher(4472, <<43>>, FALSE),
                    litMatcher(4478, <<45>>, FALSE) >>),
                ruleRefExpr(4483, "TimeHour"),
                litMatcher(4492, <<58>>, FALSE),
                ruleRefExpr(4496, "TimeMinute") >>)],
      [t |-> "rule", pos |-> 4508, name |-> "TimeOffset",
       expr |->
            choiceExpr(4524, <<
                litMatcher(4524, <<90>>, FALSE),
                ruleRefExpr(4530, "TimeNumOffset") >>)],
      [t |-> "rule", pos |-> 4546, name |-> "PartialTime",
       expr |->
            seqExpr(4562, <<
                ruleRefExpr(4562, "TimeHour"),
                litMatcher(4571, <<58>>, FALSE),
                ruleRefExpr(4575, "TimeMinute"),
                litMatcher(4586, <<58>>, FALSE),
                ruleRefExpr(4590, "TimeSecond"),
                zeroOrOneExpr(4601, ruleRefExpr(4601, "TimeSecFrac")) >>)],
      [t |-> "rule", pos |-> 4615, name |-> "FullDate",
       expr |->
            seqExpr(4628, <<
                ruleRefExpr(4628, "DateFullYear"),
                litMatcher(4641, <<45>>, FALSE),
                ruleRefExpr(4645, "DateMonth"),
                litMatcher(4655, <<45>>, FALSE),
                ruleRefExpr(4659, "DateMDay") >>)],
      [t |-> "rule", pos |-> 4669, name |-> "FullTime",
       expr |->
            seqExpr(4682, <<
                ruleRefExpr(4682, "PartialTime"),
                ruleRefExpr(4694, "TimeOffset") >>)],
      [t |-> "rule", pos |-> 4706, name |-> "DateTime",
       expr |->
            actionExpr(4719, "callonDateTime1",
                seqExpr(4719, <<
                    ruleRefExpr(4719, "FullDate"),
                    litMatcher(4728, <<84>>, FALSE),
                    ruleRefExpr(4732, "FullTime") >>))],
      [t |-> "rule", pos |-> 4787, name |-> "NanoSecondUnits",
       expr |->
            litMatcher(4807, <<110, 115>>, FALSE)],
      [t |-> "rule", pos |-> 4813, name |-> "MicroSecondUnits",
       expr |->
            choiceExpr(4835, <<
                litMatcher(4835, <<117, 115>>, FALSE),
                litMatcher(4842, <<181, 115>>, FALSE),
                litMatcher(4850, <<956, 115>>, FALSE) >>)],
      [t |-> "rule", pos |-> 4858, name |-> "MilliSecondUnits",
       expr |->
            litMatcher(4879, <<109, 115>>, FALSE)],
      [t |-> "rule", pos |-> 4885, name |-> "SecondUnits",
       expr |->
            litMatcher(4901, <<115>>, FALSE)],
      [t |-> "rule", pos |-> 4906, name |-> "MinuteUnits",
       expr |->
            litMatcher(4922, <<109>>, FALSE)],
      [t |-> "rule", pos |-> 4927, name |-> "HourUnits",
       expr |->
            litMatcher(4941, <<104>>, FALSE)],
      [t |-> "rule", pos |-> 4946, name |-> "DurationUnits",
       expr |->
            choiceExpr(4974, <<
                ruleRefExpr(4974, "NanoSecondUnits"),
                ruleRefExpr(4998, "MicroSecondUnits"),
                ruleRefExpr(5023, "MilliSecondUnits"),
                ruleRefExpr(5048, "SecondUnits"),
                ruleRefExpr(5068, "MinuteUnits"),
                ruleRefExpr(5088, "HourUnits") >>)],
      [t |-> "rule", pos |-> 5105, name |-> "SingleDuration",
       expr |->
            seqExpr(5124, <<
                ruleRefExpr(5124, "Number"),
                ruleRefExpr(5131, "DurationUnits") >>)],
      [t |-> "rule", pos |-> 5146, name |-> "Duration",
       expr |->
            actionExpr(5159, "callonDuration1",
                oneOrMoreExpr(5159, ruleRefExpr(5159, "SingleDuration")))],
      [t |-> "rule", pos |-> 5228, name |-> "StringLiteral",
       expr |->
            choiceExpr(5246, <<
                actionExpr(5246, "callonStringLiteral2",
                    seqExpr(5248, <<
                        litMatcher(5248, <<34>>, FALSE),
                        zeroOrMoreExpr(5252,
                            ruleRefExpr(5252, "DoubleStringChar")),
                        litMatcher(5270, <<34>>, FALSE) >>)),
                actionExpr(5334, "callonStringLiteral8",
                    seqExpr(5336, <<
                        litMatcher(5336, <<34>>, FALSE),
                        zeroOrMoreExpr(5340,
                            ruleRefExpr(5340, "DoubleStringChar")),
                        choiceExpr(5360, <<
                            ruleRefExpr(5360, "EOL"),
                            ruleRefExpr(5366, "EOF") >>) >>)) >>)],
      [t |-> "rule", pos |-> 5448, name |-> "DoubleStringChar",
       expr |->
            choiceExpr(5469, <<
                seqExpr(5469, <<
                    notExpr(5469,
                        choiceExpr(5472, <<
                            litMatcher(5472, <<34>>, FALSE),
                            litMatcher(5478, <<92>>, FALSE),
                            ruleRefExpr(5485, "EOL") >>)),
                    ruleRefExpr(5491, "SourceChar") >>),
                seqExpr(5506, <<
                    litMatcher(5506, <<92>>, FALSE),
                    ruleRefExpr(5511, "DoubleStringEscape") >>) >>)],
      [t |-> "rule", pos |-> 5531, name |-> "DoubleStringEscape",
       expr |->
            choiceExpr(5554, <<
                litMatcher(5554, <<34>>, FALSE),
                actionExpr(5562, "callonDoubleStringEscape3",
                    choiceExpr(5564, <<
                        ruleRefExpr(5564, "SourceChar"),
                        ruleRefExpr(5577, "EOL"),
                        ruleRefExpr(5583, "EOF") >>)) >>)],
      [t |-> "rule", pos |-> 5655, name |-> "String",
       expr |->
            actionExpr(5666, "callonString1",
                oneOrMoreExpr(5666, ruleRefExpr(5666, "StringChar")))],
      [t |-> "rule", pos |-> 5726, name |-> "StringChar",
       expr |->
            seqExpr(5741, <<
                notExpr(5741,
                    choiceExpr(5743, <<
                        litMatcher(5743, <<34>>, FALSE),
                        litMatcher(5755, <<40>>, FALSE),
                        litMatcher(5767, <<41>>, FALSE),
                        litMatcher(5779, <<58>>, FALSE),
                        litMatcher(5791, <<123>>, FALSE),
                        litMatcher(5803, <<125>>, FALSE),
                        litMatcher(5815, <<44>>, FALSE),
                        litMatcher(5827, <<36>>, FALSE),
                        litMatcher(5839, <<46>>, FALSE),
                        ruleRefExpr(5851, "ws") >>)),
                ruleRefExpr(5860, "SourceChar") >>)],
      [t |-> "rule", pos |-> 5872, name |-> "Number",
       expr |->
            actionExpr(5883, "callonNumber1",
                seqExpr(5883, <<
                    zeroOrOneExpr(5883, litMatcher(5883, <<45>>, FALSE)),
                    ruleRefExpr(5888, "Integer"),
                    zeroOrOneExpr(5896,
                        seqExpr(5898, <<
                            litMatcher(5898, <<46>>, FALSE),
                            oneOrMoreExpr(5902, ruleRefExpr(5902, "Digit")) >>)) >>))],
      [t |-> "rule", pos |-> 5963, name |-> "Integer",
       expr |->
            choiceExpr(5975, <<
                litMatcher(5975, <<48>>, FALSE),
                seqExpr(5983, <<
                    ruleRefExpr(5983, "NonZeroDigit"),
                    zeroOrMoreExpr(5996, ruleRefExpr(5996, "Digit")) >>) >>)],
      [t |-> "rule", pos |-> 6004, name |-> "NonZeroDigit",
       expr |->
            charClassMatcher(6021, <<91, 49, 45, 57, 93>>, {}, << <<49, 57>> >>, FALSE)],
      [t |-> "rule", pos |-> 6028, name |-> "Digit",
       expr |->
            charClassMatcher(6038, <<91, 48, 45, 57, 93>>, {}, << <<48, 57>> >>, FALSE)],
      [t |-> "rule", pos |-> 6045, name |-> "Field",
       expr |->
            actionExpr(6055, "callonField1",
                labeledExpr(6055, "field", litMatcher(6061, <<36>>, FALSE)))],
      [t |-> "rule", pos |-> 6115, name |-> "RegularExpressionLiteral",
       expr |->
            actionExpr(6165, "callonRegularExpressionLiteral1",
                seqExpr(6165, <<
                    litMatcher(6165, <<47>>, FALSE),
                    labeledExpr(6169, "pattern",
                        ruleRefExpr(6177, "RegularExpressionBody")),
                    litMatcher(6199, <<47>>, FALSE) >>))],
      [t |-> "rule", pos |-> 6241, name |-> "RegularExpressionBody",
       expr |->
            actionExpr(6267, "callonRegularExpressionBody1",
                labeledExpr(6267, "chars",
                    oneOrMoreExpr(6273,
                        ruleRefExpr(6273, "RegularExpressionChar"))))],
      [t |-> "rule", pos |-> 6351, name |-> "RegularExpressionChar",
       expr |->
            choiceExpr(6377, <<
                actionExpr(6377, "callonRegularExpressionChar2",
                    seqExpr(6377, <<
                        notExpr(6377,
                            charClassMatcher(6378, <<91, 92, 92, 47, 93>>, {92, 47}, <<>>, FALSE)),
                        labeledExpr(6384, "re",
                            ruleRefExpr(6387, "RegularExpressionNonTerminator")) >>)),
                ruleRefExpr(6449, "RegularExpressionBackslashSequence") >>)],
      [t |-> "rule", pos |-> 6485, name |-> "RegularExpressionBackslashSequence",
       expr |->
            choiceExpr(6524, <<
                actionExpr(6524, "callonRegularExpressionBackslashSequence2",
                    litMatcher(6524, <<92, 47>>, FALSE)),
                seqExpr(6562, <<
                    litMatcher(6562, <<92>>, FALSE),
                    ruleRefExpr(6567, "RegularExpressionNonTerminator") >>) >>)],
      [t |-> "rule", pos |-> 6599, name |-> "RegularExpressionNonTerminator",
       expr |->
            actionExpr(6634, "callonRegularExpressionNonTerminator1",
                seqExpr(6634, <<
                    notExpr(6634, ruleRefExpr(6635, "LineTerminator")),
                    ruleRefExpr(6650, "SourceChar") >>))],
      [t |-> "rule", pos |-> 6701, name |-> "SourceChar",
       expr |->
            anyMatcher(6716)],
      [t |-> "rule", pos |-> 6719, name |-> "__",
       expr |->
            zeroOrMoreExpr(6726,
                choiceExpr(6728, <<
                    ruleRefExpr(6728, "ws"),
                    ruleRefExpr(6733, "EOL") >>))],
      [t |-> "rule", pos |-> 6741, name |-> "ws",
       expr |->
            charClassMatcher(6748, <<91, 32, 92, 116, 92, 114, 92, 110, 93>>, {32, 9, 13, 10}, <<>>, FALSE)],
      [t |-> "rule", pos |-> 6759, name |-> "LineTerminator",
       expr |->
            charClassMatcher(6778, <<91, 92, 110, 92, 114, 93>>, {10, 13}, <<>>, FALSE)],
      [t |-> "rule", pos |-> 6786, name |-> "EOL",
       expr |->
            litMatcher(6794, <<10>>, FALSE)],
      [t |-> "rule", pos |-> 6800, name |-> "EOF",
       expr |->
            notExpr(6808, anyMatcher(6809))] >>

\* ---- the engine

\* utf8.RuneError and utf8.RuneSelf
RuneError == 65533
RuneSelf == 128

\* the values the parser hands around: nil, a slice of the input, a list of
\* values, and the node an action builds
nil == [k |-> "nil"]
Text(bytes) == [k |-> "text", v |-> bytes]
List(vals) == [k |-> "list", v |-> vals]

\* utf8.DecodeRune on the bytes from the current offset: the input is ASCII
\* but for bytes that can start no encoding, which decode to RuneError of
\* width 1; at the end of the input the width is 0
DecodeRune(b) ==
    IF Len(b) = 0 THEN [rn |-> RuneError, w |-> 0]
    ELSE IF Head(b) < RuneSelf THEN [rn |-> Head(b), w |-> 1]
    ELSE [rn |-> RuneError, w |-> 1]

\* unicode.ToLower on ASCII
ToLower(rn) == IF rn \in 65..90 THEN rn + 32 ELSE rn

\* a parser error: the message, the offset of its position and the expected
\* strings
addErrAt(p, err, offset, expected) ==
    [p EXCEPT !.errs = Append(@, [err |-> err, offset |-> offset,
                                  expected |-> expected])]

addErr(p, err) == addErrAt(p, err, p.pt.offset, <<>>)

\* strings are sequences of character codes; "!" and "."
Bang == <<33>>
Dot == <<46>>

\* what the parse has been seen to do, kept beside the parser for the
\* properties that speak of every evaluation: the rule matches (name, start,
\* end), the evaluations that left the offset where they may not, the
\* terminal matchers that failed (offset, want, whether under a not
\* predicate), the expectations that failAt was given to note (offset,
\* string), and whether maxFailPos and maxFailExpected have moved together
\* so far
NoObs == [matches |-> {}, moved |-> {}, fails |-> {}, wanted |-> {},
          sound |-> TRUE]

\* a failAt that keeps what was expected at the offsets before
failAt_KeepAll(p, fail, offset, want) ==
    LET w == IF p.maxFailInvertExpected THEN Bang \o want ELSE want
        failed == IF fail THEN p
                  ELSE [p EXCEPT !.obs.fails =
                            @ \cup {<<offset, want, p.maxFailInvertExpected>>}]
        seen == IF fail # p.maxFailInvertExpected THEN failed
                ELSE [failed EXCEPT !.obs.wanted = @ \cup {<<offset, w>>}]
    IN IF fail # p.maxFailInvertExpected \/ offset < p.maxFailPos THEN seen
       ELSE [seen EXCEPT !.maxFailPos = offset,
                         !.maxFailExpected = Append(@, w),
                         !.maxFailExpectedAt = Append(@, offset)]

\* the farthest failure and what was expected there
failAt(p, fail, offset, want) ==
    LET w == IF p.maxFailInvertExpected THEN Bang \o want ELSE want
        failed == IF fail THEN p
                  ELSE [p EXCEPT !.obs.fails =
                            @ \cup {<<offset, want, p.maxFailInvertExpected>>}]
        seen == IF fail # p.maxFailInvertExpected THEN failed
                ELSE [failed EXCEPT !.obs.wanted = @ \cup {<<offset, w>>}]
    IN IF fail # p.maxFailInvertExpected \/ offset < p.maxFailPos THEN seen
       ELSE LET kept == IF offset > p.maxFailPos THEN <<>>
                        ELSE p.maxFailExpected
                keptAt == IF offset > p.maxFailPos THEN <<>>
                          ELSE p.maxFailExpectedAt
            IN [seen EXCEPT !.maxFailPos = offset,
                            !.maxFailExpected = Append(kept, w),
                            !.maxFailExpectedAt = Append(keptAt, offset)]

\* maxFailPos has not gone back from before to after, and every entry of
\* maxFailExpected was recorded at maxFailPos
Together(before, after) ==
    /\ after.maxFailPos >= before.maxFailPos
    /\ \A i \in 1..Len(after.maxFailExpectedAt) :
            after.maxFailExpectedAt[i] = after.maxFailPos

read(p) ==
    LET offset == p.pt.offset + p.pt.w
        d == DecodeRune(SubSeq(p.data, offset + 1, Len(p.data)))
        p1 == [p EXCEPT !.pt = [offset |-> offset, rn |-> d.rn, w |-> d.w]]
    IN IF d.rn = RuneError /\ d.w = 1
       THEN addErr(p1, "invalid encoding")
       ELSE p1

\* a restore that leaves the parser where it is
restore_Nowhere(p, pt) == p

restore(p, pt) == IF pt.offset = p.pt.offset THEN p ELSE [p EXCEPT !.pt = pt]

\* the memo of an offset is keyed by the pointer to the rule or expression,
\* which its type and its position in the grammar file stand for
NodeKey(node) == <<node.t, node.pos>>

NoResult == [v |-> nil, b |-> FALSE, end |-> [offset |-> 0, rn |-> 0, w |-> 0]]

\* p.memo[offset] is p.memo[offset + 1] here
getMemoized(p, node) ==
    LET mm == p.memo[p.pt.offset + 1]
    IN IF NodeKey(node) \in DOMAIN mm
       THEN [res |-> mm[NodeKey(node)], ok |-> TRUE]
       ELSE [res |-> NoResult, ok |-> FALSE]

setMemoized(p, pt, node, tuple) ==
    [p EXCEPT !.memo[pt.offset + 1] = (NodeKey(node) :> tuple) @@ @]

sliceFrom(p, start) == SubSeq(p.data, start.offset + 1, p.pt.offset)

NoLabels == [l \in {} |-> nil]

pushV(p) == [p EXCEPT !.vstack = Append(@, NoLabels)]

popV(p) == [p EXCEPT !.vstack = SubSeq(@, 1, Len(@) - 1)]

\* m[lab.label] = val on the top of the vstack
setLabel(p, label, val) ==
    LET top == Len(p.vstack)
        m == p.vstack[top]
    IN [p EXCEPT !.vstack[top] =
            [l \in DOMAIN m \cup {label} |-> IF l = label THEN val ELSE m[l]]]

\* errList.err with dedupe: nil is the empty list
RECURSIVE dedupe(_)
dedupe(errs) ==
    IF Len(errs) = 0 THEN <<>>
    ELSE LET front == dedupe(SubSeq(errs, 1, Len(errs) - 1))
             last == errs[Len(errs)]
         IN IF \E i \in 1..Len(front) : front[i] = last
            THEN front
            ELSE Append(front, last)

\* p.rules as buildRulesTable fills it: the rule of a name
rules(name) == g[CHOOSE i \in 1..Len(g) : g[i].name = name]

\* logicalExpression and binaryExpression: head, folded from left to right
\* with the elements of tail, each the list << __, operator, __, operand >>
RECURSIVE binaryExpression(_, _)
binaryExpression(head, tail) ==
    IF Len(tail) = 0 THEN head
    ELSE LET last == tail[Len(tail)].v
         IN [k |-> "binary", op |-> last[2].text,
             left |-> binaryExpression(head, SubSeq(tail, 1, Len(tail) - 1)),
             right |-> last[4]]

\* the actions whose value is an expression folded over its tail
FoldActions ==
    {"callonLogical1", "callonEquality1", "callonRelational1",
     "callonAdditive1", "callonMultiplicative1"}

\* the constructors of the ast that the actions call (program, srcElems,
\* call, stringLiteral, ...): a node of the labels and of c.text, no error
astNode(act, stack, cur) ==
    [val |-> IF act.run \in FoldActions
             THEN binaryExpression(stack["head"], stack["tail"].v)
             ELSE [k |-> "node", run |-> act.run, args |-> stack,
                   text |-> cur.text],
     err |-> "nil"]

\* the actions that return one of their labels
LabelActions ==
    [callonStart1 |-> "program", callonInitializer1 |-> "expression",
     callonMemberExpression7 |-> "property", callonArguments1 |-> "args",
     callonFunctionArgsRest1 |-> "arg", callonWhereExpr1 |-> "expr",
     callonPrimary2 |-> "expr", callonRegularExpressionLiteral1 |-> "pattern",
     callonRegularExpressionChar2 |-> "re"]

\* act.run, what it returns and its error ("nil" for none): an action
\* returns one of its labels, or a text, or (onStringLiteral8 and
\* onDoubleStringEscape3) an error, or what a constructor of the ast does
run(act, p) ==
    LET stack == p.vstack[Len(p.vstack)]
    IN CASE act.run \in DOMAIN LabelActions ->
                [val |-> IF LabelActions[act.run] \in DOMAIN stack
                         THEN stack[LabelActions[act.run]] ELSE nil,
                 err |-> "nil"]
         [] act.run = "callonRegularExpressionBackslashSequence2" ->
                [val |-> Text(<<47>>), err |-> "nil"]
         [] act.run = "callonRegularExpressionNonTerminator1" ->
                [val |-> Text(p.cur.text), err |-> "nil"]
         [] act.run = "callonStringLiteral8" ->
                [val |-> Text(<<>>), err |-> "string literal not terminated"]
         [] act.run = "callonDoubleStringEscape3" ->
                [val |-> nil, err |-> "invalid escape character"]
         [] OTHER -> astNode(act, stack, p.cur)

\* The parse functions call each other to the depth of the grammar. Here the
\* Go call stack is a value: m.stack holds a frame for every parseRule and
\* parseExpr under way, with the locals of the function (pt or start, the
\* index of its loop, vals), and m.val, m.ok are what the last call returned.
\* Each function below is one function of the source, its first branch what
\* it does up to a call of parseExpr and its second what it does after it.

Frame(node, p) == [node |-> node, pt |-> p.pt, i |-> 1, vals |-> <<>>]

Top(m) == m.stack[Len(m.stack)]

\* the function on top calls parseExpr (or parseRule) on node, the parser
\* being p
Call(m, p, node) ==
    [m EXCEPT !.p = p, !.stack = Append(@, Frame(node, p)), !.mode = "call"]

\* the same from the body of a loop, which has set vals and its index
CallIn(m, p, node, vals, i) ==
    Call([m EXCEPT !.stack[Len(m.stack)].vals = vals,
                   !.stack[Len(m.stack)].i = i], p, node)

\* the function on top returns val, ok, the parser being p
Return(m, val, ok, p) ==
    [m EXCEPT !.p = p, !.stack = SubSeq(@, 1, Len(@) - 1),
              !.val = val, !.ok = ok, !.mode = "return"]

Done(m) == m.mode = "return" /\ Len(m.stack) = 0

parseActionExpr(m, act) ==
    IF m.mode = "call" THEN Call(m, m.p, act.expr)
    ELSE IF m.ok
    THEN LET start == Top(m).pt
             p1 == [m.p EXCEPT !.cur = [pos |-> start.offset,
                                        text |-> sliceFrom(m.p, start)]]
             a == run(act, p1)
         IN Return(m, a.val, TRUE,
                   IF a.err # "nil"
                   THEN addErrAt(p1, a.err, start.offset, <<>>)
                   ELSE p1)
    ELSE Return(m, m.val, FALSE, m.p)

parseAndExpr(m, and) ==
    IF m.mode = "call" THEN Call(m, pushV(m.p), and.expr)
    ELSE Return(m, nil, m.ok, restore(popV(m.p), Top(m).pt))

parseAnyMatcher(m) ==
    IF m.p.pt.rn # RuneError
    THEN LET start == m.p.pt
             p1 == failAt(read(m.p), TRUE, start.offset, Dot)
         IN Return(m, Text(sliceFrom(p1, start)), TRUE, p1)
    ELSE Return(m, nil, FALSE, failAt(m.p, FALSE, m.p.pt.offset, Dot))

parseCharClassMatcher(m, chr) ==
    LET cur == m.p.pt.rn
        start == m.p.pt
        listed == \/ cur \in chr.chars
                  \/ \E i \in 1..Len(chr.ranges) :
                        cur >= chr.ranges[i][1] /\ cur <= chr.ranges[i][2]
        p1 == failAt(read(m.p), TRUE, start.offset, chr.val)
    IN IF cur = RuneError \/ listed = chr.inverted
       THEN Return(m, nil, FALSE, failAt(m.p, FALSE, start.offset, chr.val))
       ELSE Return(m, Text(sliceFrom(p1, start)), TRUE, p1)

parseChoiceExpr(m, ch) ==
    IF m.mode = "call"
    THEN IF Len(ch.alternatives) = 0 THEN Return(m, nil, FALSE, m.p)
         ELSE Call(m, pushV(m.p), ch.alternatives[1])
    ELSE LET p1 == popV(m.p)
             i == Top(m).i
         IN IF m.ok THEN Return(m, m.val, TRUE, p1)
            ELSE IF i < Len(ch.alternatives)
            THEN CallIn(m, pushV(p1), ch.alternatives[i + 1], <<>>, i + 1)
            ELSE Return(m, nil, FALSE, p1)

parseLabeledExpr(m, lab) ==
    IF m.mode = "call" THEN Call(m, pushV(m.p), lab.expr)
    ELSE LET p1 == popV(m.p)
         IN IF m.ok /\ lab.label # ""
            THEN Return(m, m.val, TRUE, setLabel(p1, lab.label, m.val))
            ELSE Return(m, m.val, m.ok, p1)

\* strconv.Quote, as %q prints a string, on the characters of the grammar's
\* literals: the double quote, the backslash and the line feed are escaped
RECURSIVE Quoted(_)
Quoted(str) ==
    IF Len(str) = 0 THEN <<>>
    ELSE (CASE Head(str) = 34 -> <<92, 34>>
            [] Head(str) = 92 -> <<92, 92>>
            [] Head(str) = 10 -> <<92, 110>>
            [] OTHER -> <<Head(str)>>) \o Quoted(Tail(str))

Quote(str) == <<34>> \o Quoted(str) \o <<34>>

\* the loop of parseLitMatcher from the i-th rune of lit.val on
RECURSIVE litRunes(_, _, _, _, _)
litRunes(p, lit, start, i, val) ==
    IF i > Len(lit.val)
    THEN [ok |-> TRUE, p |-> failAt(p, TRUE, start.offset, val)]
    ELSE LET cur == IF lit.ignoreCase THEN ToLower(p.pt.rn) ELSE p.pt.rn
         IN IF cur # lit.val[i]
            THEN [ok |-> FALSE,
                  p |-> restore(failAt(p, FALSE, start.offset, val), start)]
            ELSE litRunes(read(p), lit, start, i + 1, val)

parseLitMatcher(m, lit) ==
    LET start == m.p.pt
        val == Quote(lit.val) \o (IF lit.ignoreCase THEN <<105>> ELSE <<>>)
        r == litRunes(m.p, lit, start, 1, val)
    IN IF r.ok THEN Return(m, Text(sliceFrom(r.p, start)), TRUE, r.p)
       ELSE Return(m, nil, FALSE, r.p)

parseNotExpr(m, not) ==
    LET flip(p) == [p EXCEPT !.maxFailInvertExpected = ~@]
    IN IF m.mode = "call" THEN Call(m, flip(pushV(m.p)), not.expr)
       ELSE Return(m, nil, ~m.ok, restore(popV(flip(m.p)), Top(m).pt))

parseOneOrMoreExpr(m, expr) ==
    IF m.mode = "call" THEN Call(m, pushV(m.p), expr.expr)
    ELSE LET p1 == popV(m.p)
             vals == Top(m).vals
         IN IF ~m.ok
            THEN IF Len(vals) = 0 THEN Return(m, nil, FALSE, p1)
                 ELSE Return(m, List(vals), TRUE, p1)
            ELSE CallIn(m, pushV(p1), expr.expr, Append(vals, m.val), 1)

\* a rule has matched from start to the offset of p
Matched(p, rule, start, ok) ==
    IF ok
    THEN [p EXCEPT !.obs.matches =
                       @ \cup {<<rule.name, start.offset, p.pt.offset>>}]
    ELSE p

parseRule(m, rule) ==
    IF m.mode = "call"
    THEN LET hit == IF m.p.memoize THEN getMemoized(m.p, rule)
                    ELSE [res |-> NoResult, ok |-> FALSE]
         IN IF hit.ok
            THEN Return(m, hit.res.v, hit.res.b,
                        Matched(restore(m.p, hit.res.end), rule, m.p.pt,
                                hit.res.b))
            ELSE Call(m, pushV(m.p), rule.expr)
    ELSE LET start == Top(m).pt
             p1 == Matched(popV(m.p), rule, start, m.ok)
         IN Return(m, m.val, m.ok,
                   IF p1.memoize
                   THEN setMemoized(p1, start, rule,
                                    [v |-> m.val, b |-> m.ok, end |-> p1.pt])
                   ELSE p1)

parseRuleRefExpr(m, ref) ==
    IF m.mode = "call"
    THEN IF \A i \in 1..Len(g) : g[i].name # ref.name
         THEN Return(m, nil, FALSE, addErr(m.p, "undefined rule"))
         ELSE Call(m, m.p, rules(ref.name))
    ELSE Return(m, m.val, m.ok, m.p)

parseSeqExpr(m, seq) ==
    IF m.mode = "call"
    THEN IF Len(seq.exprs) = 0 THEN Return(m, List(<<>>), TRUE, m.p)
         ELSE Call(m, m.p, seq.exprs[1])
    ELSE LET f == Top(m)
             vals == Append(f.vals, m.val)
         IN IF ~m.ok THEN Return(m, nil, FALSE, restore(m.p, f.pt))
            ELSE IF f.i < Len(seq.exprs)
            THEN CallIn(m, m.p, seq.exprs[f.i + 1], vals, f.i + 1)
            ELSE Return(m, List(vals), TRUE, m.p)

parseZeroOrMoreExpr(m, expr) ==
    IF m.mode = "call" THEN Call(m, pushV(m.p), expr.expr)
    ELSE LET p1 == popV(m.p)
             vals == Top(m).vals
         IN IF ~m.ok THEN Return(m, List(vals), TRUE, p1)
            ELSE CallIn(m, pushV(p1), expr.expr, Append(vals, m.val), 1)

parseZeroOrOneExpr(m, expr) ==
    IF m.mode = "call" THEN Call(m, pushV(m.p), expr.expr)
    ELSE Return(m, m.val, TRUE, popV(m.p))

\* the switch of parseExpr on the type of the expression
parseExprSwitch(m, expr) ==
    CASE expr.t = "actionExpr" -> parseActionExpr(m, expr)
      [] expr.t = "andExpr" -> parseAndExpr(m, expr)
      [] expr.t = "anyMatcher" -> parseAnyMatcher(m)
      [] expr.t = "charClassMatcher" -> parseCharClassMatcher(m, expr)
      [] expr.t = "choiceExpr" -> parseChoiceExpr(m, expr)
      [] expr.t = "labeledExpr" -> parseLabeledExpr(m, expr)
      [] expr.t = "litMatcher" -> parseLitMatcher(m, expr)
      [] expr.t = "notExpr" -> parseNotExpr(m, expr)
      [] expr.t = "oneOrMoreExpr" -> parseOneOrMoreExpr(m, expr)
      [] expr.t = "ruleRefExpr" -> parseRuleRefExpr(m, expr)
      [] expr.t = "seqExpr" -> parseSeqExpr(m, expr)
      [] expr.t = "zeroOrMoreExpr" -> parseZeroOrMoreExpr(m, expr)
      [] expr.t = "zeroOrOneExpr" -> parseZeroOrOneExpr(m, expr)

\* an evaluation of expr from pt has returned ok with the parser p: it may
\* have left the offset of pt only if it matched and is no predicate
Left(p, expr, pt, ok) ==
    IF p.pt.offset # pt.offset /\ (~ok \/ expr.t \in {"andExpr", "notExpr"})
    THEN [p EXCEPT !.obs.moved =
                       @ \cup {<<NodeKey(expr), pt.offset, p.pt.offset>>}]
    ELSE p

\* what parseExpr does when the function of the switch has returned
parseExprReturn(m, r, expr) ==
    LET pt == Top(m).pt
        p1 == Left(r.p, expr, pt, r.ok)
    IN [r EXCEPT !.p = IF p1.memoize
                       THEN setMemoized(p1, pt, expr,
                                        [v |-> r.val, b |-> r.ok,
                                         end |-> p1.pt])
                       ELSE p1]

\* the function of the switch has run to r: its next call, or its return
parseExprNext(m, r, expr) ==
    IF Len(r.stack) < Len(m.stack) THEN parseExprReturn(m, r, expr) ELSE r

parseExpr(m, expr) ==
    LET hit == IF m.mode = "call" /\ m.p.memoize THEN getMemoized(m.p, expr)
               ELSE [res |-> NoResult, ok |-> FALSE]
    IN IF hit.ok
       THEN Return(m, hit.res.v, hit.res.b,
                   Left(restore(m.p, hit.res.end), expr, m.p.pt, hit.res.b))
       ELSE parseExprNext(m, parseExprSwitch(m, expr), expr)

\* the function on top of the stack runs to its next call or to its return
Stepped(m, r) == [r EXCEPT !.p.obs.sound = @ /\ Together(m.p, r.p)]

Step(m) ==
    LET node == Top(m).node
    IN Stepped(m, IF node.t = "rule" THEN parseRule(m, node)
                  ELSE parseExpr(m, node))

\* at most 2^k steps, stopping when the outermost function has returned
RECURSIVE Steps(_, _)
Steps(m, k) ==
    IF Done(m) THEN m
    ELSE IF k = 0 THEN Step(m)
    ELSE Steps(Steps(m, k - 1), k - 1)

\* steps until the outermost function has returned
RECURSIVE Run(_, _)
Run(m, k) == IF Done(m) THEN m ELSE Run(Steps(m, k), k + 1)

\* newParser with the option Memoize(memoize)
newParser(b, memoize) ==
    [data |-> b,
     pt |-> [offset |-> 0, rn |-> 0, w |-> 0],
     cur |-> [pos |-> 0, text |-> <<>>],
     errs |-> <<>>,
     vstack |-> <<>>,
     memoize |-> memoize,
     memo |-> [offset \in 1..Len(b) + 1 |-> <<>>],
     maxFailPos |-> 0,
     maxFailExpected |-> <<>>,
     maxFailExpectedAt |-> <<>>,
     maxFailInvertExpected |-> FALSE,
     obs |-> NoObs]

\* s comes before t as sort.Strings orders them
RECURSIVE Less(_, _)
Less(s, t) ==
    IF Len(t) = 0 THEN FALSE
    ELSE IF Len(s) = 0 THEN TRUE
    ELSE IF Head(s) # Head(t) THEN Head(s) < Head(t)
    ELSE Less(Tail(s), Tail(t))

\* sort.Strings on the keys of a map
RECURSIVE SortStrings(_)
SortStrings(strs) ==
    IF strs = {} THEN <<>>
    ELSE LET least == CHOOSE s \in strs : \A t \in strs \ {s} : Less(s, t)
         IN <<least>> \o SortStrings(strs \ {least})

EOF == <<69, 79, 70>>

\* the expected strings of the error of a failed parse: maxFailExpected
\* without duplicates, sorted, "!." last as EOF
Expected(maxFailExpected) ==
    LET all == {maxFailExpected[i] : i \in 1..Len(maxFailExpected)}
    IN SortStrings(all \ {Bang \o Dot})
           \o (IF Bang \o Dot \in all THEN <<EOF>> ELSE <<>>)

\* p.read() and p.parseRule(g.rules[0]): the parser and what the start rule
\* returned
parseStart(p) ==
    LET p0 == read(p)
    IN Run([p |-> p0, stack |-> <<Frame(g[1], p0)>>,
            val |-> nil, ok |-> FALSE, mode |-> "call"], 0)

\* what parse makes of it: val and err, err being the deduped list of errors
parseEnd(m) ==
    IF ~m.ok
    THEN LET p1 == IF Len(m.p.errs) = 0
                   THEN addErrAt(m.p, "no match found", m.p.maxFailPos,
                                 Expected(m.p.maxFailExpected))
                   ELSE m.p
         IN [val |-> nil, err |-> dedupe(p1.errs)]
    ELSE [val |-> m.val, err |-> dedupe(m.p.errs)]

parse(p) ==
    IF Len(g) = 0
    THEN [val |-> nil, err |-> dedupe(addErr(p, "grammar has no rule").errs)]
    ELSE parseEnd(parseStart(p))

\* Parse(filename, b, Memoize(memoize))
ParseWith(b, memoize) == parse(newParser(b, memoize))

\* Parse(filename, b): no memo by default
Parse(b) == ParseWith(b, FALSE)

\* ---- Parse on byte inputs

\* longest tail of an input after one of InputPrefixes
MaxInput == 3

\* the bytes of the inputs: a ( ) : " and a line feed, and 0xff, which starts
\* no UTF-8 encoding
InputBytes == {97, 40, 41, 58, 34, 10, 255}

\* the empty input, a( and a(a:, and va, the start of the literal "var"
InputPrefixes == {<<>>, <<97, 40>>, <<97, 40, 97, 58>>, <<118, 97>>}

ParseInputs ==
    {prefix \o tail : prefix \in InputPrefixes,
                      tail \in UNION {[1..n -> InputBytes] : n \in 0..MaxInput}}

CallParse == FnCall("Parse", Parse(fnArgs))

\* C20: Parse returns an AST and no error, or no AST and errors whose
\* offsets are between 0 and the length of the input, never both an AST
\* and an error
C20_ParseTotal ==
    Returned("Parse") =>
        \/ fnRet.val.k # "nil" /\ Len(fnRet.err) = 0
        \/ /\ fnRet.val.k = "nil"
           /\ Len(fnRet.err) > 0
           /\ \A i \in 1..Len(fnRet.err) :
                fnRet.err[i].offset \in 0..Len(fnArgs)

\* ---- where expressions

\* number of operands, a b c ...
MaxOperands == 3

Operands == {<<96 + i>> : i \in 1..MaxOperands}

\* or and and
LogicalOps == {<<111, 114>>, <<97, 110, 100>>}

\* x op1 y op2 z for all operands and logical operators
WhereInputs ==
    [x : Operands, y : Operands, z : Operands, op1 : LogicalOps, op2 : LogicalOps]

Spaced(op) == <<32>> \o op \o <<32>>

Parens(e) == <<40>> \o e \o <<41>>

\* x op1 y op2 z as it is written
Flat(a) == a.x \o Spaced(a.op1) \o a.y \o Spaced(a.op2) \o a.z

\* the same with the parentheses of the precedence or < and, and of the
\* fold from the left for two operators of one precedence
Grouped(a) ==
    IF a.op1 = <<111, 114>> /\ a.op2 = <<97, 110, 100>>
    THEN a.x \o Spaced(a.op1) \o Parens(a.y \o Spaced(a.op2) \o a.z)
    ELSE Parens(a.x \o Spaced(a.op1) \o a.y) \o Spaced(a.op2) \o a.z

\* the program f(w:{e})
WhereProgram(e) == <<102, 40, 119, 58, 123>> \o e \o <<125, 41>>

\* the predicate of the program f(w:{e}): the value of the argument w of the
\* call, nil when the parse gave no such tree
Predicate(r) ==
    IF r.val.k = "nil" \/ Len(r.err) > 0 THEN nil
    ELSE LET stmt == r.val.args["body"].args["head"]
             call == stmt.args["call"].args["head"]
             object == call.args["args"]
         IN object.args["first"].args["value"]

ParseWhere(a) ==
    [flat |-> Predicate(Parse(WhereProgram(Flat(a)))),
     grouped |-> Predicate(Parse(WhereProgram(Grouped(a))))]

CallParseWhere == FnCall("ParseWhere", ParseWhere(fnArgs))

\* two trees with the same operators over the same operands
RECURSIVE SameTree(_, _)
SameTree(s, t) ==
    /\ s.k = t.k
    /\ s.k # "nil"
    /\ IF s.k = "binary"
       THEN s.op = t.op /\ SameTree(s.left, t.left) /\ SameTree(s.right, t.right)
       ELSE s.run = t.run /\ s.text = t.text

\* C21: x op1 y op2 z has the tree of x or (y and z) when op1 is or and op2
\* is and, and the tree of (x op1 y) op2 z otherwise
C21_Precedence ==
    Returned("ParseWhere") => SameTree(fnRet.flat, fnRet.grouped)

\* ---- Parse with and without the memo

\* a parse of b with the option Memoize(memoize): what Parse returns, whether
\* the start rule matched and where it ended, and what the parse was seen to
\* do
Seen(m, r) ==
    [val |-> r.val, err |-> r.err, ok |-> m.ok, end |-> m.p.pt.offset,
     errs |-> Len(m.p.errs), maxFailPos |-> m.p.maxFailPos, obs |-> m.p.obs]

SeenOf(m) == Seen(m, parseEnd(m))

ParseSeen(b, memoize) == SeenOf(parseStart(newParser(b, memoize)))

ParseBoth(b) == [plain |-> ParseSeen(b, FALSE), memo |-> ParseSeen(b, TRUE)]

CallParseBoth == FnCall("ParseBoth", ParseBoth(fnArgs))

\* two values of the parser that are the same value
RECURSIVE SameValue(_, _)
SameValue(s, t) ==
    /\ s.k = t.k
    /\ CASE s.k = "nil" -> TRUE
         [] s.k = "text" -> s.v = t.v
         [] s.k = "list" ->
                /\ Len(s.v) = Len(t.v)
                /\ \A i \in 1..Len(s.v) : SameValue(s.v[i], t.v[i])
         [] s.k = "binary" ->
                /\ s.op = t.op
                /\ SameValue(s.left, t.left)
                /\ SameValue(s.right, t.right)
         [] s.k = "node" ->
                /\ s.run = t.run
                /\ s.text = t.text
                /\ DOMAIN s.args = DOMAIN t.args
                /\ \A l \in DOMAIN s.args : SameValue(s.args[l], t.args[l])

\* C22: with Memoize(true) and with Memoize(false) Parse agrees on whether
\* the input matches, on the start and end of every rule match, on the value
\* and on the errors
C22_MemoSame ==
    Returned("ParseBoth") =>
        /\ fnRet.memo.ok = fnRet.plain.ok
        /\ fnRet.memo.obs.matches = fnRet.plain.obs.matches
        /\ SameValue(fnRet.memo.val, fnRet.plain.val)
        /\ fnRet.memo.err = fnRet.plain.err

\* C27: when Parse returns a value and no error, the start rule has matched
\* up to the end of the input
C27_WholeInput ==
    Returned("ParseBoth") =>
        \A seen \in {fnRet.plain, fnRet.memo} :
            (seen.ok /\ Len(seen.err) = 0) => seen.end = Len(fnArgs)

\* the largest of a set of offsets, 0 for none
Farthest(offsets) ==
    IF offsets = {} THEN 0
    ELSE CHOOSE o \in offsets : \A other \in offsets : other <= o

\* the parse failed and no action and no read had given an error
Failed(seen) == ~seen.ok /\ seen.errs = 0

\* the largest offset at which a terminal matcher failed
FarFail(seen) == Farthest({f[1] : f \in seen.obs.fails})

\* the strings that failAt was given to note at offset o
WantedAt(seen, o) == {f[2] : f \in {x \in seen.obs.wanted : x[1] = o}}

\* C29: in a parse maxFailPos never goes back and maxFailExpected holds
\* expectations noted at maxFailPos only; a parse that fails with no other
\* error reports one error, at the largest offset at which a terminal
\* matcher failed, with the strings expected at that offset sorted and
\* without duplicates
C29_FarthestFailure ==
    Returned("ParseBoth") =>
        \A seen \in {fnRet.plain, fnRet.memo} :
            /\ seen.obs.sound
            /\ Failed(seen) =>
                  /\ Len(seen.err) = 1
                  /\ seen.err[1].offset = FarFail(seen)
                  /\ seen.err[1].expected =
                        Expected(SortStrings(WantedAt(seen, FarFail(seen))))

\* a parse has failed at an offset after the start with two strings or more
\* expected there, after expectations were noted at an offset before it and
\* a matcher had failed under a not predicate
C29_Witness ==
    /\ Returned("ParseBoth")
    /\ Failed(fnRet.plain)
    /\ fnRet.plain.err[1].offset > 0
    /\ Len(fnRet.plain.err[1].expected) >= 2
    /\ \E w \in fnRet.plain.obs.wanted : w[1] < fnRet.plain.err[1].offset
    /\ \E f \in fnRet.plain.obs.fails : f[3]

\* C30: with and without the memo, no evaluation of an expression that
\* returned no match, and no evaluation of an and or not predicate, has left
\* the offset at another place than where it started
C30_BacktrackRestores ==
    Returned("ParseBoth") =>
        fnRet.plain.obs.moved = {} /\ fnRet.memo.obs.moved = {}

\* a parse in which the start rule failed and left the offset at 0 after a
\* rule had matched up to a later offset, in which a matcher had matched
\* under a not predicate, and in which the literal "var" failed at 0 on an
\* input that starts with va, with the memo and without
C30_Witness ==
    /\ Returned("ParseBoth")
    /\ Len(fnArgs) >= 2 /\ fnArgs[1] = 118 /\ fnArgs[2] = 97
    /\ <<0, Quote(<<118, 97, 114>>), FALSE>> \in fnRet.plain.obs.fails
    /\ \A seen \in {fnRet.plain, fnRet.memo} :
          /\ ~seen.ok
          /\ seen.end = 0
          /\ \E match \in seen.obs.matches : match[3] > 0
          /\ \E w \in seen.obs.wanted : Head(w[2]) = Head(Bang)

\* ------------------------------------------------------ part VI: aggregates

\* most Do calls and Reset calls on one aggregate, longest slice of one Do
\* call, largest value
MaxDo == 3
MaxReset == 2
MaxVs == 2
MaxAggValue == 2

\* The float64 fields are modelled as exact fractions <<numerator,
\* denominator>> in lowest terms with a positive denominator: the rounding of
\* float64 is not modelled.
RECURSIVE GCD(_, _)
GCD(x, y) == IF y = 0 THEN x ELSE GCD(y, x % y)

Abs(x) == IF x < 0 THEN -x ELSE x

Frac(num, den) ==
    LET d == GCD(Abs(num), Abs(den))
        sign == IF den < 0 THEN -1 ELSE 1
    IN <<sign * (num \div d), sign * (den \div d)>>

Whole(x) == <<x, 1>>
Plus(x, y) == Frac(x[1] * y[2] + y[1] * x[2], x[2] * y[2])
Minus(x, y) == Frac(x[1] * y[2] - y[1] * x[2], x[2] * y[2])
Times(x, y) == Frac(x[1] * y[1], x[2] * y[2])
Over(x, y) == Frac(x[1] * y[2], x[2] * y[1])

\* new(StddevAgg)
NewStddevAgg == [n |-> Whole(0), m2 |-> Whole(0), mean |-> Whole(0)]

\* the body of the loop of Do for the value v
DoValue(a, v) ==
    LET n == Plus(a.n, Whole(1))
        delta == Minus(Whole(v), a.mean)
        mean == Plus(a.mean, Over(delta, n))
        delta2 == Minus(Whole(v), mean)
    IN [n |-> n, mean |-> mean, m2 |-> Plus(a.m2, Times(delta, delta2))]

RECURSIVE Do(_, _)
Do(a, vs) == IF Len(vs) = 0 THEN a ELSE Do(DoValue(a, Head(vs)), Tail(vs))

\* Value: NaN, or the square root of a fraction, given as the fraction
Value(a) ==
    IF a.n[1] < 2 * a.n[2] THEN [nan |-> TRUE, sqrtOf |-> Whole(0)]
    ELSE [nan |-> FALSE, sqrtOf |-> Over(a.m2, Minus(a.n, Whole(1)))]

\* Reset that leaves m2 as it is
ResetCountAndMean(a) == [a EXCEPT !.n = Whole(0), !.mean = Whole(0)]

Reset(a) == [n |-> Whole(0), mean |-> Whole(0), m2 |-> Whole(0)]

AggValues == UNION {[1..len -> 0..MaxAggValue] : len \in 0..MaxVs}

\* createStddevTransformation: a new aggregate
AggInit ==
    /\ agg = NewStddevAgg
    /\ fresh = NewStddevAgg
    /\ ndo = 0
    /\ nreset = 0
    /\ dropped = 0

\* a query without a stddev: the aggregate is never called
AggParked == AggInit

\* the transformation gives the aggregate the values of a block
AggDo ==
    /\ ndo < MaxDo
    /\ \E vs \in AggValues :
          /\ agg' = Do(agg, vs)
          /\ fresh' = Do(fresh, vs)
    /\ ndo' = ndo + 1
    /\ UNCHANGED <<nreset, dropped>>

\* the trigger of a window fires: Value is written and the aggregate Reset
AggReset ==
    /\ nreset < MaxReset
    /\ agg' = Reset(agg)
    /\ fresh' = NewStddevAgg
    /\ nreset' = nreset + 1
    /\ dropped' = agg.n[1]
    /\ UNCHANGED ndo

\* C23: once Reset has been called, the aggregate is in the state of a new
\* aggregate given the Do calls made since the last Reset, and so is its Value
C23_ResetIsNew ==
    nreset > 0 =>
        /\ agg = fresh
        /\ Value(agg) = Value(fresh)

\* values went in before a Reset and enough after it for a deviation
C23_Witness ==
    /\ nreset > 0
    /\ dropped > 1
    /\ ~Value(agg).nan
    /\ Value(agg).sqrtOf # Whole(0)

\* ------------------------------------------------------------ specifications

\* the planner before NewPlanner has been given anything to plan
PlanParked ==
    /\ nprocs = 0
    /\ procs = [id \in 1..MaxProcs |-> NoProcedure]
    /\ logical = procs
    /\ planProcs = {}
    /\ planOrder = <<>>
    /\ results = <<>>
    /\ planBounds = ZeroBounds
    /\ planErr = "unset"
    /\ ppc = "idle"
    /\ vi = 1
    /\ visited = [id \in 1..MaxProcs |-> NotVisited]

\* a query without a storage source
SrcParked ==
    /\ nts = 0
    /\ boundsStop = 0
    /\ period = 0
    /\ every = 0
    /\ c0 = 0
    /\ currentTime = 0
    /\ pc = "done"
    /\ ti = 1
    /\ blk = 1
    /\ nblk = 0
    /\ mark = 0
    /\ calls = 0
    /\ win = 0
    /\ lastNext = [start |-> 0, stop |-> 0, read |-> FALSE, ret |-> ExhaustedReturn]
    /\ readFailed = FALSE
    /\ logged = 0
    /\ cancelled = FALSE
    /\ obs = [t \in 1..MaxTs |-> NoCalls]

SourceNext ==
    \/ SrcNext /\ UNCHANGED notSrc
    \/ SrcProcess /\ UNCHANGED notSrc
    \/ SrcProcessingTime /\ UNCHANGED notSrc
    \/ SrcWatermark /\ UNCHANGED notSrc
    \/ SrcFinish /\ UNCHANGED notSrc
    \/ Cancel /\ UNCHANGED notSrc

\* a storage source run to its end, for every configuration
InitSource == SrcInit /\ PlanParked /\ FnParked /\ SelParked /\ AggParked

SpecSource == InitSource /\ [][SourceNext]_vars

InitSourceLive == SrcConfig(0..MaxEvery) /\ PlanParked /\ FnParked /\ SelParked /\ AggParked

\* the same with a window that does not move backwards, and the thread of
\* Run always scheduled
SpecSourceLive ==
    /\ InitSourceLive
    /\ [][SourceNext]_vars
    /\ WF_vars(SrcRun /\ UNCHANGED notSrc)

PlannerNext ==
    \/ PlanPopulate /\ UNCHANGED notPlan
    \/ PlanVisit /\ UNCHANGED notPlan
    \/ PlanResults /\ UNCHANGED notPlan

\* one call of Plan on every logical plan of at most MaxProcs procedures
InitPlan == PlanInit /\ SrcParked /\ FnParked /\ SelParked /\ AggParked

SpecPlan == InitPlan /\ [][PlannerNext]_vars

SearchNext ==
    \/ PlanPopulate /\ UNCHANGED notPlan
    \/ PlanVisit /\ UNCHANGED notPlan
    \/ PlanResults /\ UNCHANGED notPlan
    \/ CallSearch /\ UNCHANGED notFn

\* one call of Plan on every logical plan of at most MaxProcs procedures, or
\* one search from a PushDown procedure of a plan of SearchInputs
InitSearch ==
    /\ \/ PlanInit /\ FnParked
       \/ PlanParked /\ FnInit("pushDownAndSearch", SearchInputs)
    /\ SrcParked /\ SelParked /\ AggParked

SpecSearch == InitSearch /\ [][SearchNext]_vars

ChainNext ==
    \/ CallPlanBoth /\ UNCHANGED notFn

\* one call of Plan on every chain of ChainInputs and one on the chain with
\* the range and the where exchanged
InitChain ==
    FnInit("Plan", ChainInputs) /\ SrcParked /\ PlanParked /\ SelParked /\ AggParked

SpecChain == InitChain /\ [][ChainNext]_vars

RangeOpNext ==
    \/ CallCreateRangeOpSpec /\ UNCHANGED notFn

\* one call of createRangeOpSpec on every argument map
InitRangeOp ==
    FnInit("createRangeOpSpec", RangeArgs) /\ SrcParked /\ PlanParked /\ SelParked /\ AggParked

SpecRangeOp == InitRangeOp /\ [][RangeOpNext]_vars

MergeJoinNext ==
    \/ CallMergeJoin /\ UNCHANGED notFn

\* one join of every pair of parent buffers of at most MaxJoinRows rows
InitMergeJoin ==
    FnInit("mergeJoin", JoinInputs) /\ SrcParked /\ PlanParked /\ SelParked /\ AggParked

SpecMergeJoin == InitMergeJoin /\ [][MergeJoinNext]_vars

SelectorNext ==
    \/ SelProcess /\ UNCHANGED notSel

\* a selector transformation fed at most MaxSelBlocks blocks
InitSelector == SelInit /\ SrcParked /\ PlanParked /\ FnParked /\ AggParked

SpecSelector == InitSelector /\ [][SelectorNext]_vars

ParseNext ==
    \/ CallParse /\ UNCHANGED notFn

\* one call of Parse on every input of ParseInputs
InitParse ==
    FnInit("Parse", ParseInputs) /\ SrcParked /\ PlanParked /\ SelParked /\ AggParked

SpecParse == InitParse /\ [][ParseNext]_vars

WhereNext ==
    \/ CallParseWhere /\ UNCHANGED notFn

\* one parse of every where expression of WhereInputs, flat and grouped
InitWhere ==
    FnInit("ParseWhere", WhereInputs) /\ SrcParked /\ PlanParked /\ SelParked /\ AggParked

SpecWhere == InitWhere /\ [][WhereNext]_vars

BothNext ==
    \/ CallParseBoth /\ UNCHANGED notFn

\* one parse with the memo and one without of every input of ParseInputs
InitBoth ==
    FnInit("ParseBoth", ParseInputs) /\ SrcParked /\ PlanParked /\ SelParked /\ AggParked

SpecBoth == InitBoth /\ [][BothNext]_vars

AggNext ==
    \/ AggDo /\ UNCHANGED notAgg
    \/ AggReset /\ UNCHANGED notAgg

\* a new stddev aggregate
InitAgg == AggInit /\ SrcParked /\ PlanParked /\ FnParked /\ SelParked

SpecAgg == InitAgg /\ [][AggNext]_vars

====
